---------------------------- MODULE Spec2Model ----------------------------
(***************************************************************************)
(* SleepTracker (sleep-api): the time resolver (time.rs), the rolling      *)
(* window analytics, the recommendation builder and the range requests     *)
(* (trends.rs), the friction backlog and telemetry requests, the sleep     *)
(* session and exercise calls (handlers.rs, repository.rs), and the        *)
(* session and CSRF guards of the mutating routes (app.rs, auth.rs,        *)
(* security/csrf.rs, middleware/auth_layer.rs).                            *)
(*                                                                         *)
(* Numbers.  Dates are day numbers (days since 1970-01-01), times of day   *)
(* are seconds since local midnight, instants are pairs <<day, sec>> in    *)
(* UTC.  An f64 that the code derives from whole minutes is kept exactly   *)
(* as an integer number of hundredths of a minute ("centi-minutes"), so    *)
(* the interpolation weights of percentile_linear (multiples of 1/100)     *)
(* are exact.  The analytics requests compute on these; percentile_linear  *)
(* on its own is also computed on f64 bit for bit, rounding included.      *)
(***************************************************************************)
EXTENDS Integers, Sequences, FiniteSets, TLC

VARIABLES
    t_in,      \* function call: the arguments of the function called
    t_out,     \* function call: its result, or NoResult before the call
    rows,      \* the rows of v_daily_sleep, ordered by wake_date
    events,    \* the rows of friction_telemetry, ordered by id
    clock,     \* Utc::now().date_naive() as the server sees it
    req,       \* the analytics request being served, or NoRequest
    pc,        \* the position of the request's handler
    win,       \* the window bounds the handler computed
    reads,     \* number of reads the handler issued to the persistence layer
    fetched,   \* the rows the handler read
    resp,      \* the handler's response
    sessions,  \* the rows of sleep_sessions joined with sleep_metrics
    next_id,   \* the id the next inserted row gets
    user_tz,   \* app_settings.user_timezone as get_user_timezone resolves it
    calls,     \* number of writing calls served so far
    out,       \* the result of the last writing call, or NoResult
    cookies,   \* the cookie store of the client, as the responses set it
    copied,    \* the cookies the client copied out of its last login response
    sent,      \* the request the client sent last, or NoRequestSent
    exercise_events  \* the rows of exercise_events, ordered by id

vars ==
    <<t_in, t_out, rows, events, clock, req, pc, win, reads, fetched, resp,
      sessions, next_id, user_tz, calls, out, cookies, copied, sent,
      exercise_events>>

timeVars == <<t_in, t_out>>
trendVars == <<rows, events, clock, req, pc, win, reads, fetched, resp>>
crudVars == <<sessions, next_id, user_tz, calls, out>>
clientVars == <<cookies, copied>>
authVars == <<cookies, copied, sent>>

NoResult == [kind |-> "none"]
NoRequest == [endpoint |-> "none"]
NoWindow == [set |-> FALSE]

-----------------------------------------------------------------------------
(* Calendar (chrono::NaiveDate, NaiveTime, NaiveDateTime)                   *)

SecondsPerMinute == 60
SecondsPerDay == 86400
MinutesPerDay == 1440

\* NaiveDate::from_ymd_opt: the day number of a civil date.
DaysFromCivil(y, m, d) ==
    LET yy == IF m <= 2 THEN y - 1 ELSE y
        era == yy \div 400
        yoe == yy - era * 400
        mp == IF m > 2 THEN m - 3 ELSE m + 9
        doy == (153 * mp + 2) \div 5 + d - 1
        doe == yoe * 365 + yoe \div 4 - yoe \div 100 + doy
    IN  era * 146097 + doe - 719468

\* NaiveTime::from_hms_opt
Hms(h, m, s) == h * 3600 + m * 60 + s

\* The earliest date chrono represents; pred_opt and checked_sub_signed
\* return None below it.
NaiveDateMin == DaysFromCivil(-262143, 1, 1)

pred_opt(date) ==
    IF date = NaiveDateMin THEN [some |-> FALSE] ELSE [some |-> TRUE, v |-> date - 1]

\* NaiveDate::checked_sub_signed(Duration::days(days))
checked_sub_signed(date, days) ==
    IF date - days < NaiveDateMin THEN [some |-> FALSE]
    ELSE [some |-> TRUE, v |-> date - days]

\* Datelike::weekday, 0 = Monday .. 6 = Sunday (1970-01-01 was a Thursday).
Weekday(date) == (date + 3) % 7

\* NaiveDateTime::new and NaiveDateTime + Duration, in seconds.
Ndt(date, time) == <<date, time>>

NdtPlus(ndt, secs) ==
    LET total == ndt[2] + secs
    IN  <<ndt[1] + (total \div SecondsPerDay), total % SecondsPerDay>>

NdtLe(a, b) == a[1] < b[1] \/ (a[1] = b[1] /\ a[2] <= b[2])
NdtLt(a, b) == a[1] < b[1] \/ (a[1] = b[1] /\ a[2] < b[2])

\* a - b as a chrono Duration, in seconds.
NdtDiff(a, b) == (a[1] - b[1]) * SecondsPerDay + (a[2] - b[2])

\* Duration::num_minutes truncates toward zero.
num_minutes(secs) ==
    IF secs >= 0 THEN secs \div SecondsPerMinute ELSE -((-secs) \div SecondsPerMinute)

-----------------------------------------------------------------------------
(* Time zones (chrono_tz::Tz): an initial UTC offset and the transitions    *)
(* that change it, each at a UTC instant.                                   *)

Tokyo == [name |-> "Asia/Tokyo", init |-> 9 * 3600, trans |-> <<>>]

New_York ==
    [name |-> "America/New_York", init |-> -5 * 3600,
     trans |-> << [at |-> Ndt(DaysFromCivil(2025, 3, 9), Hms(7, 0, 0)), off |-> -4 * 3600],
                  [at |-> Ndt(DaysFromCivil(2025, 11, 2), Hms(6, 0, 0)), off |-> -5 * 3600] >>]

\* Samoa skipped 2011-12-30 altogether: a gap of 24 hours of local time.
Apia ==
    [name |-> "Pacific/Apia", init |-> -10 * 3600,
     trans |-> << [at |-> Ndt(DaysFromCivil(2011, 12, 30), Hms(10, 0, 0)), off |-> 14 * 3600] >>]

\* The UTC offset in force during the i-th period of tz (period 0 precedes
\* every transition).
PeriodOffset(tz, i) == IF i = 0 THEN tz.init ELSE tz.trans[i].off

\* TimeZone::from_local_datetime: the UTC instants whose local reading is ndt.
\* None is the empty set, Single one instant, Ambiguous two.
from_local_datetime(tz, ndt) ==
    { NdtPlus(ndt, -PeriodOffset(tz, i)) : i \in
        { j \in 0..Len(tz.trans) :
            LET u == NdtPlus(ndt, -PeriodOffset(tz, j))
            IN  /\ (j = 0 \/ NdtLe(tz.trans[j].at, u))
                /\ (j = Len(tz.trans) \/ NdtLt(u, tz.trans[j + 1].at)) } }

Earliest(instants) == CHOOSE u \in instants : \A v \in instants : NdtLe(u, v)

\* TimeZone::from_utc_datetime: the instant that reads ndt in UTC.
from_utc_datetime(tz, ndt) == ndt


-----------------------------------------------------------------------------
(* time.rs                                                                  *)

\* Maximum minutes to scan forward to bridge DST "spring forward" gaps.
MAX_DST_GAP_MINUTES == 180

\* The loop of resolve_local: `for _ in 0..MAX_DST_GAP_MINUTES` probes
\* ndt + i minutes at iteration i and returns at the first one that exists;
\* after the last iteration the naive time is read as UTC.
scan_forward(tz, ndt) ==
    LET valid == { i \in 0..(MAX_DST_GAP_MINUTES - 1) :
                     from_local_datetime(tz, NdtPlus(ndt, i * SecondsPerMinute)) # {} }
    IN  IF valid = {}
        THEN [instant |-> from_utc_datetime(tz, ndt), how |-> "fallback",
              probes |-> MAX_DST_GAP_MINUTES]
        ELSE LET first == CHOOSE i \in valid : \A j \in valid : i <= j
             IN  [instant |-> Earliest(from_local_datetime(tz,
                                  NdtPlus(ndt, first * SecondsPerMinute))),
                  how |-> "gap", probes |-> first + 1]

resolve_local(tz, ndt) ==
    LET r == from_local_datetime(tz, ndt)
    IN  CASE Cardinality(r) = 1 -> [instant |-> Earliest(r), how |-> "single", probes |-> 0]
          [] Cardinality(r) > 1 -> [instant |-> Earliest(r), how |-> "ambiguous", probes |-> 0]
          [] OTHER -> scan_forward(tz, ndt)

I32_MAX == 2147483647

InvalidInput(msg) == [kind |-> "err", err |-> "InvalidInput", msg |-> msg]

\* Mutant of bed_date_of: the bed is always put on the wake date.
bed_date_same_day(wake_date, bed_time, wake_time) == [some |-> TRUE, v |-> wake_date]

\* compute_duration_min, the choice of the bed date.
bed_date_of(wake_date, bed_time, wake_time) ==
    IF bed_time > wake_time THEN pred_opt(wake_date) ELSE [some |-> TRUE, v |-> wake_date]

\* Mutant of duration_result: a duration of zero minutes is accepted.
duration_result_allows_zero(mins) ==
    IF mins < 0 THEN InvalidInput("Duration must be positive")
    ELSE IF mins > I32_MAX THEN InvalidInput("Duration too large")
    ELSE [kind |-> "ok", mins |-> mins]

\* compute_duration_min, the checks on the computed minutes.
duration_result(mins) ==
    IF mins <= 0 THEN InvalidInput("Duration must be positive")
    ELSE IF mins > I32_MAX THEN InvalidInput("Duration too large")
    ELSE [kind |-> "ok", mins |-> mins]

compute_duration_min(wake_date, bed_time, wake_time, tz) ==
    LET bed_date == bed_date_of(wake_date, bed_time, wake_time)
    IN  IF ~bed_date.some THEN InvalidInput("invalid date (underflow)")
        ELSE LET bed_local == resolve_local(tz, Ndt(bed_date.v, bed_time))
                 wake_local == resolve_local(tz, Ndt(wake_date, wake_time))
                 mins == num_minutes(NdtDiff(wake_local.instant, bed_local.instant))
             IN  [bed_local |-> bed_local, wake_local |-> wake_local]
                    @@ duration_result(mins)

-----------------------------------------------------------------------------
(* trends.rs: day samples and order statistics                              *)

None == [some |-> FALSE]
Some(x) == [some |-> TRUE, v |-> x]

\* A cookie header or cookie store without the session and CSRF cookies.
NoCookies == [session |-> None, csrf |-> None]
NoRequestSent == [method |-> "none"]

\* One f64 minute is Centi hundredths of a minute.
Centi == 100
DayCenti == 24 * 60 * Centi

RECURSIVE SumRange(_, _, _)
SumRange(s, lo, hi) ==
    IF lo > hi THEN 0
    ELSE IF lo = hi THEN s[lo]
    ELSE LET mid == (lo + hi) \div 2
         IN  SumRange(s, lo, mid) + SumRange(s, mid + 1, hi)

\* iter().sum()
SeqSum(s) == SumRange(s, 1, Len(s))

\* iter().filter(keep).collect()
Filter(s, keep(_)) == SelectSeq(s, keep)

\* iter().map(f).collect()
Map(s, f(_)) == [i \in 1..Len(s) |-> f(s[i])]

Abs(x) == IF x < 0 THEN -x ELSE x

\* Rust's % on numbers: the remainder has the sign of the dividend.
RustRem(a, b) == IF a >= 0 THEN a % b ELSE -((-a) % b)

\* minutes_of_day: hour * 60 + minute; the seconds are dropped.
minutes_of_day(t) == (t \div 3600) * 60 + ((t % 3600) \div SecondsPerMinute)

normalize_minutes(min) == (RustRem(min, DayCenti) + DayCenti) % DayCenti

\* Mutant of circular_minutes_diff: the plain distance, blind to midnight.
linear_minutes_diff(a, b) == Abs(a - b)

circular_minutes_diff(a, b) ==
    LET diff == (a - b) % DayCenti
    IN  IF diff <= DayCenti - diff THEN diff ELSE DayCenti - diff

\* Mutant of circular_signed_minutes_delta: the plain difference, blind to
\* midnight.
linear_signed_minutes_delta(later, earlier) == later - earlier

circular_signed_minutes_delta(later, earlier) ==
    ((later - earlier + DayCenti \div 2) % DayCenti) - DayCenti \div 2

within_clock_minute_band(value, center, threshold_min) ==
    circular_minutes_diff(value, center) <= threshold_min

\* percentile_linear(values, p) for p = pct / 100.  rank = p * (n - 1); the
\* weight of the upper neighbour is the fractional part of rank.
percentile_linear(values, pct) ==
    IF Len(values) = 0 THEN None
    ELSE LET sorted == SortSeq(values, LAMBDA x, y : x < y)
             p == IF pct < 0 THEN 0 ELSE IF pct > 100 THEN 100 ELSE pct
             rank100 == p * (Len(sorted) - 1)
             lower == rank100 \div 100
             upper == (rank100 + 99) \div 100
             weight == rank100 - lower * 100
         IN  IF lower = upper THEN Some(sorted[lower + 1])
             ELSE Some((sorted[lower + 1] * (100 - weight) + sorted[upper + 1] * weight)
                          \div 100)

median(values) == percentile_linear(values, 50)

-----------------------------------------------------------------------------
(* f64 arithmetic, bit for bit.  A natural number is the sequence of its    *)
(* digits in base Radix, least significant first and without leading        *)
(* zeros; a non-negative f64 is m * 2^e with m such a number of at most     *)
(* MantissaBits bits, odd unless it is zero.  Every operation computes the  *)
(* exact result and rounds it to the nearest f64, ties to even, as IEEE 754 *)
(* does; the values met here are far from overflow and from subnormals.     *)

Radix == 16384
RadixBits == 14
MantissaBits == 53

RECURSIVE Pow2(_)
Pow2(k) == IF k = 0 THEN 1 ELSE 2 * Pow2(k - 1)

RECURSIVE NatTrim(_)
NatTrim(a) ==
    IF a = <<>> THEN <<>>
    ELSE IF a[Len(a)] = 0 THEN NatTrim(SubSeq(a, 1, Len(a) - 1))
    ELSE a

RECURSIVE NatOfInt(_)
NatOfInt(n) == IF n = 0 THEN <<>> ELSE <<n % Radix>> \o NatOfInt(n \div Radix)

RECURSIVE NatToInt(_)
NatToInt(a) == IF a = <<>> THEN 0 ELSE a[1] + Radix * NatToInt(Tail(a))

DigitAt(a, i) == IF i <= Len(a) THEN a[i] ELSE 0

RECURSIVE NatAddFrom(_, _, _, _)
NatAddFrom(a, b, i, carry) ==
    IF i > Len(a) /\ i > Len(b)
    THEN IF carry = 0 THEN <<>> ELSE <<carry>>
    ELSE LET x == DigitAt(a, i) + DigitAt(b, i) + carry
         IN  <<x % Radix>> \o NatAddFrom(a, b, i + 1, x \div Radix)

NatAdd(a, b) == NatAddFrom(a, b, 1, 0)

\* a - b for a >= b
RECURSIVE NatSubFrom(_, _, _, _)
NatSubFrom(a, b, i, borrow) ==
    IF i > Len(a) THEN <<>>
    ELSE LET x == a[i] - DigitAt(b, i) - borrow
         IN  IF x < 0 THEN <<x + Radix>> \o NatSubFrom(a, b, i + 1, 1)
             ELSE <<x>> \o NatSubFrom(a, b, i + 1, 0)

NatSub(a, b) == NatTrim(NatSubFrom(a, b, 1, 0))

\* -1, 0 or 1 as a < b, a = b or a > b
RECURSIVE NatCmpFrom(_, _, _)
NatCmpFrom(a, b, i) ==
    IF i = 0 THEN 0
    ELSE IF a[i] < b[i] THEN -1
    ELSE IF a[i] > b[i] THEN 1
    ELSE NatCmpFrom(a, b, i - 1)

NatCmp(a, b) ==
    IF Len(a) < Len(b) THEN -1
    ELSE IF Len(a) > Len(b) THEN 1
    ELSE NatCmpFrom(a, b, Len(a))

\* a * k for a digit k
RECURSIVE NatMulDigitFrom(_, _, _, _)
NatMulDigitFrom(a, k, i, carry) ==
    IF i > Len(a)
    THEN IF carry = 0 THEN <<>> ELSE <<carry>>
    ELSE LET x == a[i] * k + carry
         IN  <<x % Radix>> \o NatMulDigitFrom(a, k, i + 1, x \div Radix)

NatMulDigit(a, k) == IF k = 0 THEN <<>> ELSE NatMulDigitFrom(a, k, 1, 0)

Zeros(n) == [i \in 1..n |-> 0]

RECURSIVE NatMulFrom(_, _, _)
NatMulFrom(a, b, i) ==
    IF i > Len(b) THEN <<>>
    ELSE NatAdd(NatTrim(Zeros(i - 1) \o NatMulDigit(a, b[i])), NatMulFrom(a, b, i + 1))

NatMul(a, b) == NatMulFrom(a, b, 1)

\* a * 2^k
NatShl(a, k) ==
    IF a = <<>> THEN <<>>
    ELSE Zeros(k \div RadixBits) \o NatMulDigit(a, Pow2(k % RadixBits))

\* floor(a / 2^k)
NatShr(a, k) ==
    LET drop == k \div RadixBits
        d == Pow2(k % RadixBits)
        rest == SubSeq(a, drop + 1, Len(a))
    IN  NatTrim([i \in 1..Len(rest) |->
                    (rest[i] \div d) + (DigitAt(rest, i + 1) % d) * (Radix \div d)])

RECURSIVE BitsOfDigit(_)
BitsOfDigit(x) == IF x = 0 THEN 0 ELSE 1 + BitsOfDigit(x \div 2)

\* The number of bits of a.
NatBits(a) ==
    IF a = <<>> THEN 0 ELSE RadixBits * (Len(a) - 1) + BitsOfDigit(a[Len(a)])

NatOdd(a) == a # <<>> /\ a[1] % 2 = 1

\* m * 2^e with m odd, or zero.
RECURSIVE F64Canon(_, _)
F64Canon(m, e) ==
    IF m = <<>> THEN [m |-> <<>>, e |-> 0]
    ELSE IF NatOdd(m) THEN [m |-> m, e |-> e]
    ELSE F64Canon(NatShr(m, 1), e + 1)

\* The f64 nearest to m * 2^e, ties to the even mantissa.
F64Round(m, e) ==
    LET s == NatBits(m) - MantissaBits
    IN  IF s <= 0 THEN F64Canon(m, e)
        ELSE LET q == NatShr(m, s)
                 r == NatSub(m, NatShl(q, s))
                 c == NatCmp(r, NatShl(<<1>>, s - 1))
                 up == c = 1 \/ (c = 0 /\ NatOdd(q))
             IN  F64Canon(IF up THEN NatAdd(q, <<1>>) ELSE q, e + s)

\* n as f64, for 0 <= n < 2^31
F64OfInt(n) == F64Canon(NatOfInt(n), 0)

F64MinExp(a, b) == IF a.e < b.e THEN a.e ELSE b.e

\* The mantissa of a over the exponent e <= a.e.
F64Over(a, e) == NatShl(a.m, a.e - e)

F64Cmp(a, b) == NatCmp(F64Over(a, F64MinExp(a, b)), F64Over(b, F64MinExp(a, b)))

F64Le(a, b) == F64Cmp(a, b) <= 0

F64Mul(a, b) == F64Round(NatMul(a.m, b.m), a.e + b.e)

F64Add(a, b) ==
    LET e == F64MinExp(a, b)
    IN  F64Round(NatAdd(F64Over(a, e), F64Over(b, e)), e)

\* a - b for a >= b
F64Sub(a, b) ==
    LET e == F64MinExp(a, b)
    IN  F64Round(NatSub(F64Over(a, e), F64Over(b, e)), e)

\* rank.floor() as usize
F64Floor(a) == IF a.e >= 0 THEN NatToInt(NatShl(a.m, a.e)) ELSE NatToInt(NatShr(a.m, -a.e))

\* rank.ceil() as usize: a canonical f64 with e < 0 is no integer.
F64Ceil(a) == IF a.e >= 0 THEN F64Floor(a) ELSE F64Floor(a) + 1

\* The f64 literals the percentiles are asked at: 0.1 is
\* 0x1.999999999999ap-4 = 3602879701896397 * 2^-55 and 0.9 is
\* 0x1.ccccccccccccdp-1 = 8106479329266893 * 2^-53.
F64Literal(text) ==
    CASE text = "0.0" -> F64OfInt(0)
      [] text = "0.1" -> [m |-> <<3277, 13107, 3276, 819>>, e |-> -55]
      [] text = "0.25" -> [m |-> <<1>>, e |-> -2]
      [] text = "0.5" -> [m |-> <<1>>, e |-> -1]
      [] text = "0.75" -> [m |-> <<3>>, e |-> -2]
      [] text = "0.9" -> [m |-> <<3277, 13107, 3276, 1843>>, e |-> -53]
      [] text = "1.0" -> F64OfInt(1)

\* percentile_linear on f64: `values` are whole numbers of minutes (each an
\* exact f64, not negative) and p is an f64 in [0, 1], which clamp leaves as
\* it is.
percentile_linear_f64(values, p) ==
    IF Len(values) = 0 THEN None
    ELSE LET sorted == SortSeq(values, LAMBDA x, y : x < y)
             rank == F64Mul(p, F64OfInt(Len(sorted) - 1))
             lower == F64Floor(rank)
             upper == F64Ceil(rank)
             weight == F64Sub(rank, F64OfInt(lower))
         IN  IF lower = upper THEN Some(F64OfInt(sorted[lower + 1]))
             ELSE Some(F64Add(F64Mul(F64OfInt(sorted[lower + 1]),
                                     F64Sub(F64OfInt(1), weight)),
                              F64Mul(F64OfInt(sorted[upper + 1]), weight)))

median_f64(values) == percentile_linear_f64(values, F64Literal("0.5"))

-----------------------------------------------------------------------------

\* Mutant of abs_diff: the plain distance of the two values.
abs_diff_linear(a, b) ==
    IF a.some /\ b.some THEN Some(linear_minutes_diff(a.v, b.v)) ELSE None

abs_diff(a, b) ==
    IF a.some /\ b.some THEN Some(circular_minutes_diff(a.v, b.v)) ELSE None

\* pct(part, total) = part * 100 / total, kept as the fraction num / den.
pct(part, total) ==
    IF total = 0 THEN None ELSE Some([num |-> part * 100, den |-> total])

\* Mutant of to_day_sample: crosses_midnight compares the clock minutes, not
\* the times.
to_day_sample_by_minutes(row) ==
    LET bed_clock_min == minutes_of_day(row.bed_time) * Centi
        wake_clock_min == minutes_of_day(row.wake_time) * Centi
        crosses_midnight == bed_clock_min > wake_clock_min
    IN  [wake_date |-> row.wake_date,
         bed_clock_min |-> bed_clock_min,
         wake_clock_min |-> wake_clock_min,
         bed_relative_min |-> IF crosses_midnight THEN bed_clock_min - DayCenti
                              ELSE bed_clock_min,
         wake_relative_min |-> wake_clock_min,
         midpoint_clock_min |->
             normalize_minutes(wake_clock_min - (row.duration_min * Centi) \div 2),
         duration_min |-> row.duration_min * Centi,
         quality |-> row.quality,
         weekend |-> Weekday(row.wake_date) \in {5, 6}]

\* A PersonalizationDailyRow of v_daily_sleep becomes a DaySample; the clock
\* fields are whole minutes, the midpoint may fall on a half minute.
to_day_sample(row) ==
    LET bed_clock_min == minutes_of_day(row.bed_time) * Centi
        wake_clock_min == minutes_of_day(row.wake_time) * Centi
        crosses_midnight == row.bed_time > row.wake_time
    IN  [wake_date |-> row.wake_date,
         bed_clock_min |-> bed_clock_min,
         wake_clock_min |-> wake_clock_min,
         bed_relative_min |-> IF crosses_midnight THEN bed_clock_min - DayCenti
                              ELSE bed_clock_min,
         wake_relative_min |-> wake_clock_min,
         midpoint_clock_min |->
             normalize_minutes(wake_clock_min - (row.duration_min * Centi) \div 2),
         duration_min |-> row.duration_min * Centi,
         quality |-> row.quality,
         weekend |-> Weekday(row.wake_date) \in {5, 6}]

\* a * b as three digits in base 2^15, most significant first (a, b < 2^30):
\* the f64 products below exceed the integers the checker computes with.
Base15 == 32768

Product(a, b) ==
    LET a1 == a \div Base15
        a0 == a % Base15
        b1 == b \div Base15
        b0 == b % Base15
        lo == a0 * b0
        mid == a1 * b0 + a0 * b1 + lo \div Base15
    IN  <<a1 * b1 + mid \div Base15, mid % Base15, lo % Base15>>

ProductGe(x, y) ==
    \/ x[1] > y[1]
    \/ (x[1] = y[1] /\ x[2] > y[2])
    \/ (x[1] = y[1] /\ x[2] = y[2] /\ x[3] >= y[3])

\* sqrt(a) + sqrt(b) >= k for naturals a, b, k, decided exactly.
SumSqrtGe(a, b, k) ==
    LET c == k * k - a - b
    IN  \/ c <= 0
        \/ ProductGe(Product(2 * a, 2 * b), Product(c, c))

\* std_dev: the population standard deviation, None below two values.  The
\* values are whole minutes; the result is sqrt(sq) / n minutes, with
\* sq = n * sum(d^2) - sum(d)^2 for d the distances from the floor of the mean.
std_dev(values) ==
    IF Len(values) < 2 THEN None
    ELSE LET n == Len(values)
             mins == [i \in 1..n |-> values[i] \div Centi]
             m0 == SeqSum(mins) \div n
             d == [i \in 1..n |-> mins[i] - m0]
             dd == [i \in 1..n |-> d[i] * d[i]]
         IN  Some([sq |-> n * SeqSum(dd) - SeqSum(d) * SeqSum(d), n |-> n])

\* (b + w) / 2.0 for two standard deviations over the same n samples.
mean_std(b, w) == IF b.some /\ w.some THEN Some([bed |-> b.v, wake |-> w.v]) ELSE None

\* v >= threshold (whole minutes) for v a mean_std.
variability_at_least(v, threshold) ==
    SumSqrtGe(v.bed.sq, v.wake.sq, 2 * threshold * v.bed.n)

\* Mutant of window_stats: no day is ever missing.
window_stats_none_missing(from, to, samples, window_days) ==
    [from |-> from, to |-> to,
     logged_days |-> Cardinality({ samples[i].wake_date : i \in 1..Len(samples) }),
     missing_days |-> 0,
     missing_days_pct |-> [num |-> 0, den |-> window_days]]

window_stats(from, to, samples, window_days) ==
    LET unique_days == { samples[i].wake_date : i \in 1..Len(samples) }
        logged_days == Cardinality(unique_days)
        missing == window_days - logged_days
        missing_days == IF missing > 0 THEN missing ELSE 0
    IN  [from |-> from, to |-> to, logged_days |-> logged_days,
         missing_days |-> missing_days,
         missing_days_pct |-> [num |-> missing_days * 100, den |-> window_days]]

IsWeekend(s) == s.weekend
IsWeekday(s) == ~s.weekend
BedClock(s) == s.bed_clock_min
WakeClock(s) == s.wake_clock_min
BedRelative(s) == s.bed_relative_min
WakeRelative(s) == s.wake_relative_min
Midpoint(s) == s.midpoint_clock_min
DurationOf(s) == s.duration_min
HasQuality(s) == s.quality.some
QualityOf(s) == s.quality.v

day_type_medians(samples) ==
    LET weekday == Filter(samples, IsWeekday)
        weekend == Filter(samples, IsWeekend)
    IN  [weekday_bed |-> median(Map(weekday, BedClock)),
         weekday_wake |-> median(Map(weekday, WakeClock)),
         weekday_n |-> Len(weekday),
         weekend_bed |-> median(Map(weekend, BedClock)),
         weekend_wake |-> median(Map(weekend, WakeClock)),
         weekend_n |-> Len(weekend)]

\* Mutant of social_jetlag_delta: the delta is taken from the weekend median
\* to the weekday median.
social_jetlag_delta_reversed(samples) ==
    LET weekday_mid == Map(Filter(samples, IsWeekday), Midpoint)
        weekend == Filter(samples, IsWeekend)
        weekend_mid == Map(weekend, Midpoint)
        wd == median(weekday_mid)
        we == median(weekend_mid)
    IN  [delta |-> IF wd.some /\ we.some
                   THEN Some(circular_signed_minutes_delta(wd.v, we.v)) ELSE None,
         weekend_n |-> Len(weekend)]

social_jetlag_delta(samples) ==
    LET weekday_mid == Map(Filter(samples, IsWeekday), Midpoint)
        weekend == Filter(samples, IsWeekend)
        weekend_mid == Map(weekend, Midpoint)
        wd == median(weekday_mid)
        we == median(weekend_mid)
    IN  [delta |-> IF wd.some /\ we.some
                   THEN Some(circular_signed_minutes_delta(we.v, wd.v)) ELSE None,
         weekend_n |-> Len(weekend)]

-----------------------------------------------------------------------------
(* trends.rs: build_recommendations                                         *)

\* if cond { reasons.push(text) }
PushIf(reasons, cond, text) == IF cond THEN Append(reasons, text) ELSE reasons

Recommendation(key, recommended, confident, level, reasons) ==
    [action_key |-> key,
     status |-> IF recommended THEN "recommended" ELSE "suppressed",
     confidence |-> IF confident THEN level ELSE "low",
     suppression_reasons |-> IF recommended THEN <<>> ELSE reasons]

\* Mutant of duration_recommendation: the eligibility reason is never pushed.
duration_recommendation_no_baseline_reason(duration_trigger, m) ==
    LET r1 == PushIf(<<>>, ~duration_trigger,
                     "recent out-of-range incidence is below 5% trigger")
        r2 == Append(r1, "schedule disruption guardrail unavailable from current data (travel/shift period not inferred)")
        ok == m.eligible /\ duration_trigger
    IN  Recommendation("personal_duration_warning_tuning", ok, ok, "medium", r2)

duration_recommendation(duration_trigger, m) ==
    LET r0 == PushIf(<<>>, ~m.eligible,
                     "needs at least 60 baseline sessions in prior window")
        r1 == PushIf(r0, ~duration_trigger,
                     "recent out-of-range incidence is below 5% trigger")
        r2 == Append(r1, "schedule disruption guardrail unavailable from current data (travel/shift period not inferred)")
        ok == m.eligible /\ duration_trigger
    IN  Recommendation("personal_duration_warning_tuning", ok, ok, "medium", r2)

day_type_recommendation(m) ==
    LET r0 == PushIf(<<>>, m.weekday_sample_days < 8 \/ m.weekend_sample_days < 4,
                     "requires >=8 weekday and >=4 weekend sessions in current window")
        r1 == PushIf(r0, ~m.midpoint_stable_across_windows,
                     "day-type midpoint medians are not stable across adjacent windows")
        r2 == PushIf(r1, m.recent_14_day_diverges_from_baseline,
                     "recent 14-day pattern strongly diverges from baseline")
    IN  Recommendation("day_type_default_prefill",
                       m.eligible /\ ~m.recent_14_day_diverges_from_baseline,
                       m.eligible, "medium", r2)

\* Mutant of social_recommendation: eligibility is not asked for.
social_recommendation_ignores_eligibility(m) ==
    LET r0 == PushIf(<<>>, m.weekend_sample_days < 4,
                     "weekend sample too small (<4 sessions)")
        r1 == PushIf(r0, ~m.sustained_two_windows,
                     "social jetlag delta is not >=30 min for two consecutive windows")
        ok == m.sustained_two_windows
    IN  Recommendation("social_jetlag_schedule_shift_insight", ok, ok, "high", r1)

social_recommendation(m) ==
    LET r0 == PushIf(<<>>, m.weekend_sample_days < 4,
                     "weekend sample too small (<4 sessions)")
        r1 == PushIf(r0, ~m.sustained_two_windows,
                     "social jetlag delta is not >=30 min for two consecutive windows")
        ok == m.eligible /\ m.sustained_two_windows
    IN  Recommendation("social_jetlag_schedule_shift_insight", ok, ok, "high", r1)

\* Mutant of variability_recommendation: the data gap does not suppress.
variability_recommendation_ignores_gap(m) ==
    LET r0 == PushIf(<<>>, ~m.sustained_two_windows,
                     "schedule variability is not >=60 minutes across two windows")
        r1 == PushIf(r0, m.high_data_gap, "data gaps exceed 30% of current window")
    IN  Recommendation("regularity_insight_priority",
                       m.eligible /\ m.sustained_two_windows,
                       m.eligible /\ m.sustained_two_windows, "medium", r1)

variability_recommendation(m) ==
    LET r0 == PushIf(<<>>, ~m.sustained_two_windows,
                     "schedule variability is not >=60 minutes across two windows")
        r1 == PushIf(r0, m.high_data_gap, "data gaps exceed 30% of current window")
    IN  Recommendation("regularity_insight_priority",
                       m.eligible /\ m.sustained_two_windows /\ ~m.high_data_gap,
                       m.eligible /\ m.sustained_two_windows, "medium", r1)

quality_recommendation(m) ==
    LET r0 == PushIf(<<>>, m.sessions_with_quality < 40,
                     "requires at least 40 sessions with quality")
        r1 == PushIf(r0, m.distinct_quality_values < 3,
                     "requires at least 3 distinct quality values")
        r2 == PushIf(r1, ~m.stable_across_adjacent_windows,
                     "factor effects are not stable across adjacent windows")
    IN  Recommendation("quality_aligned_factor_explanation",
                       m.eligible, m.eligible, "medium", r2)

build_recommendations(duration_trigger, duration_metric, day_type_metric, social_metric, variability_metric, quality_metric) ==
    << duration_recommendation(duration_trigger, duration_metric),
       day_type_recommendation(day_type_metric),
       social_recommendation(social_metric),
       variability_recommendation(variability_metric),
       quality_recommendation(quality_metric) >>

-----------------------------------------------------------------------------
(* trends.rs: build_personalization_calc                                    *)

Factors ==
    << "duration_in_personal_range", "consistent_mid_sleep_timing",
       "weekday_schedule_alignment" >>

is_favorable(s, midpoint_median, p10, p90, factor) ==
    CASE factor = "duration_in_personal_range" ->
            IF p10.some /\ p90.some
            THEN s.duration_min >= p10.v /\ s.duration_min <= p90.v
            ELSE FALSE
      [] factor = "consistent_mid_sleep_timing" ->
            IF midpoint_median.some
            THEN within_clock_minute_band(s.midpoint_clock_min, midpoint_median.v, 60 * Centi)
            ELSE FALSE
      [] factor = "weekday_schedule_alignment" ->
            IF s.weekend
            THEN IF midpoint_median.some
                 THEN within_clock_minute_band(s.midpoint_clock_min, midpoint_median.v,
                                               90 * Centi)
                 ELSE FALSE
            ELSE TRUE
      [] OTHER -> FALSE

\* The closure factor_effect: the mean quality of the favorable samples minus
\* that of the unfavorable ones, as the fraction num / den (den > 0).
factor_effect(samples, midpoint_median, p10, p90, factor) ==
    LET tagged == Filter(samples, HasQuality)
        fav(s) == is_favorable(s, midpoint_median, p10, p90, factor)
        unfav(s) == ~is_favorable(s, midpoint_median, p10, p90, factor)
        favorable == Map(Filter(tagged, fav), QualityOf)
        unfavorable == Map(Filter(tagged, unfav), QualityOf)
    IN  IF Len(favorable) < 5 \/ Len(unfavorable) < 5 THEN None
        ELSE Some([num |-> SeqSum(favorable) * Len(unfavorable)
                             - SeqSum(unfavorable) * Len(favorable),
                   den |-> Len(favorable) * Len(unfavorable)])

\* f64::signum: 1.0 for +0.0 and above, -1.0 below.
signum(e) == IF e.num >= 0 THEN 1 ELSE -1

\* |a| > |b| for two effects.
AbsGreater(a, b) == Abs(a.num) * b.den > Abs(b.num) * a.den

\* sort_by(|a, b| b.effect.abs().total_cmp(&a.effect.abs())): a stable sort,
\* largest absolute effect first.
\* Mutant of sort_by_abs_effect: the factors stay in the order they were
\* pushed in.
sort_by_abs_effect_skipped(fs) == fs

RECURSIVE sort_by_abs_effect(_)
sort_by_abs_effect(fs) ==
    IF Len(fs) <= 1 THEN fs
    ELSE LET rest == sort_by_abs_effect(SubSeq(fs, 1, Len(fs) - 1))
             x == fs[Len(fs)]
             k == Cardinality({ i \in 1..Len(rest) : ~AbsGreater(x.effect, rest[i].effect) })
         IN  SubSeq(rest, 1, k) \o <<x>> \o SubSeq(rest, k + 1, Len(rest))

truncate(s, n) == IF Len(s) > n THEN SubSeq(s, 1, n) ELSE s

\* iter().rev().take(n)
rev_take(s, n) ==
    [i \in 1..(IF Len(s) < n THEN Len(s) ELSE n) |-> s[Len(s) + 1 - i]]

\* .map(|d| d <= limit).unwrap_or(false)
AtMost(opt, limit) == opt.some /\ opt.v <= limit
\* .map(|d| d > limit).unwrap_or(false)
Above(opt, limit) == opt.some /\ opt.v > limit
\* .map(|d| d.abs() >= limit).unwrap_or(false)
AbsAtLeast(opt, limit) == opt.some /\ Abs(opt.v) >= limit

\* Mutant of duration_eligible: the current window is counted, not the prior.
duration_eligible_counts_current(prior_durations, current_durations) ==
    Len(current_durations) >= 60

duration_eligible(prior_durations, current_durations) == Len(prior_durations) >= 60

variability_of(samples) ==
    mean_std(std_dev(Map(samples, BedRelative)), std_dev(Map(samples, WakeRelative)))

build_personalization_calc(current_samples, prior_samples, current_from, current_to, prior_from, prior_to, window_days) ==
    LET current_window == window_stats(current_from, current_to, current_samples, window_days)
        prior_window == window_stats(prior_from, prior_to, prior_samples, window_days)
        prior_durations == Map(prior_samples, DurationOf)
        current_durations == Map(current_samples, DurationOf)
        p10 == percentile_linear(prior_durations, 10)
        p50 == percentile_linear(prior_durations, 50)
        p90 == percentile_linear(prior_durations, 90)
        p25 == percentile_linear(prior_durations, 25)
        p75 == percentile_linear(prior_durations, 75)
        iqr == IF p25.some /\ p75.some THEN Some(p75.v - p25.v) ELSE None
        outside(v) == v < p10.v \/ v > p90.v
        out_of_range_count ==
            IF p10.some /\ p90.some THEN Len(Filter(current_durations, outside)) ELSE 0
        out_of_range_pct == pct(out_of_range_count, Len(current_durations))
        duration_is_eligible == duration_eligible(prior_durations, current_durations)
        duration_trigger ==
            /\ duration_is_eligible
            /\ out_of_range_pct.some
            /\ out_of_range_pct.v.num >= 5 * out_of_range_pct.v.den
        cur == day_type_medians(current_samples)
        current_weekday_mid == Map(Filter(current_samples, IsWeekday), Midpoint)
        current_weekend_mid == Map(Filter(current_samples, IsWeekend), Midpoint)
        prior_weekday_mid == Map(Filter(prior_samples, IsWeekday), Midpoint)
        prior_weekend_mid == Map(Filter(prior_samples, IsWeekend), Midpoint)
        weekday_mid_stable ==
            AtMost(abs_diff(median(current_weekday_mid), median(prior_weekday_mid)), 30 * Centi)
        weekend_mid_stable ==
            AtMost(abs_diff(median(current_weekend_mid), median(prior_weekend_mid)), 30 * Centi)
        midpoint_stable_across_windows == weekday_mid_stable /\ weekend_mid_stable
        recent_14 == rev_take(current_samples, 14)
        recent_14_weekday_mid == Map(Filter(recent_14, IsWeekday), Midpoint)
        recent_14_weekend_mid == Map(Filter(recent_14, IsWeekend), Midpoint)
        recent_diverges ==
            \/ Above(abs_diff(median(recent_14_weekday_mid), median(prior_weekday_mid)),
                     90 * Centi)
            \/ Above(abs_diff(median(recent_14_weekend_mid), median(prior_weekend_mid)),
                     90 * Centi)
        day_type_eligible ==
            cur.weekday_n >= 8 /\ cur.weekend_n >= 4 /\ midpoint_stable_across_windows
        social_current == social_jetlag_delta(current_samples)
        social_prior == social_jetlag_delta(prior_samples)
        social_sustained ==
            /\ AbsAtLeast(social_current.delta, 30 * Centi)
            /\ AbsAtLeast(social_prior.delta, 30 * Centi)
        social_eligible == social_current.weekend_n >= 4 /\ social_prior.weekend_n >= 4
        current_var == variability_of(current_samples)
        prior_var == variability_of(prior_samples)
        variability_sustained ==
            /\ current_var.some /\ variability_at_least(current_var.v, 60)
            /\ prior_var.some /\ variability_at_least(prior_var.v, 60)
        high_gap ==
            current_window.missing_days_pct.num > 30 * current_window.missing_days_pct.den
        variability_eligible == current_var.some /\ prior_var.some
        quality_samples_current == Filter(current_samples, HasQuality)
        quality_values ==
            { quality_samples_current[i].quality.v : i \in 1..Len(quality_samples_current) }
        quality_base_eligible ==
            Len(quality_samples_current) >= 40 /\ Cardinality(quality_values) >= 3
        current_mid_median == median(Map(current_samples, Midpoint))
        prior_mid_median == median(Map(prior_samples, Midpoint))
        duration_window_p10 == percentile_linear(current_durations, 10)
        duration_window_p90 == percentile_linear(current_durations, 90)
        prior_duration_p10 == percentile_linear(prior_durations, 10)
        prior_duration_p90 == percentile_linear(prior_durations, 90)
        cur_effect == [i \in 1..Len(Factors) |->
            factor_effect(current_samples, current_mid_median,
                          duration_window_p10, duration_window_p90, Factors[i])]
        prv_effect == [i \in 1..Len(Factors) |->
            factor_effect(prior_samples, prior_mid_median,
                          prior_duration_p10, prior_duration_p90, Factors[i])]
        both(i) == cur_effect[i].some /\ prv_effect[i].some
        stable_effects ==
            \A i \in 1..Len(Factors) :
                both(i) /\ signum(cur_effect[i].v) = signum(prv_effect[i].v)
        pushed == Map(Filter([i \in 1..Len(Factors) |-> i], both),
                      LAMBDA i : [factor |-> Factors[i], effect |-> cur_effect[i].v])
        ranked_factors == truncate(sort_by_abs_effect(pushed), 3)
        quality_eligible == quality_base_eligible /\ stable_effects
        duration_metric ==
            [eligible |-> duration_is_eligible,
             sample_days |-> Len(prior_durations),
             p10_min |-> p10, p50_min |-> p50, p90_min |-> p90, iqr_min |-> iqr,
             recent_out_of_range_incidence_pct |-> out_of_range_pct]
        day_type_metric ==
            [eligible |-> day_type_eligible,
             weekday_sample_days |-> cur.weekday_n,
             weekend_sample_days |-> cur.weekend_n,
             weekday_bed_median_min |-> cur.weekday_bed,
             weekday_wake_median_min |-> cur.weekday_wake,
             weekend_bed_median_min |-> cur.weekend_bed,
             weekend_wake_median_min |-> cur.weekend_wake,
             midpoint_stable_across_windows |-> midpoint_stable_across_windows,
             recent_14_day_diverges_from_baseline |-> recent_diverges]
        social_metric ==
            [eligible |-> social_eligible,
             weekend_sample_days |-> social_current.weekend_n,
             current_delta_min |-> social_current.delta,
             prior_delta_min |-> social_prior.delta,
             sustained_two_windows |-> social_sustained]
        variability_metric ==
            [eligible |-> variability_eligible,
             current_variability_min |-> current_var,
             prior_variability_min |-> prior_var,
             sustained_two_windows |-> variability_sustained,
             high_data_gap |-> high_gap]
        quality_metric ==
            [eligible |-> quality_eligible,
             sessions_with_quality |-> Len(quality_samples_current),
             distinct_quality_values |-> Cardinality(quality_values),
             stable_across_adjacent_windows |-> stable_effects,
             ranked_factors |-> ranked_factors]
    IN  [current_window |-> current_window,
         prior_window |-> prior_window,
         metrics |-> [duration_baseline |-> duration_metric,
                      day_type_timing_baseline |-> day_type_metric,
                      social_jetlag |-> social_metric,
                      schedule_variability |-> variability_metric,
                      quality_factor_ranking |-> quality_metric],
         recommendations |->
             build_recommendations(duration_trigger, duration_metric, day_type_metric,
                                   social_metric, variability_metric, quality_metric)]

-----------------------------------------------------------------------------
(* trends.rs: the personalization handler                                   *)

IsLeapYear(y) == (y % 4 = 0 /\ y % 100 # 0) \/ y % 400 = 0

DaysInMonth(y, m) ==
    IF m = 2 THEN (IF IsLeapYear(y) THEN 29 ELSE 28)
    ELSE IF m \in {4, 6, 9, 11} THEN 30 ELSE 31

\* A query-string date.  DateText(y, m, d) is the text "y-m-d" written with
\* digits; any other text is Garbage.
DateText(y, m, d) == [text |-> "digits", y |-> y, m |-> m, d |-> d]
Garbage == [text |-> "other"]

\* parse_date_field: NaiveDate::parse_from_str(s, "%Y-%m-%d").
parse_date_field(s, field) ==
    IF /\ s.text = "digits"
       /\ s.m >= 1 /\ s.m <= 12
       /\ s.d >= 1 /\ s.d <= DaysInMonth(s.y, s.m)
    THEN [kind |-> "ok", date |-> DaysFromCivil(s.y, s.m, s.d)]
    ELSE InvalidInput("invalid " \o field \o " date")

\* Mutant of window_bounds: the prior window ends on the day the current one
\* starts.
window_bounds_overlapping(as_of, window_days) ==
    LET current_from == checked_sub_signed(as_of, window_days - 1)
        prior_from == IF current_from.some
                      THEN checked_sub_signed(current_from.v, window_days - 1) ELSE None
    IN  IF ~current_from.some \/ ~prior_from.some THEN InvalidInput("invalid date range")
        ELSE [kind |-> "ok", set |-> TRUE, as_of |-> as_of, window_days |-> window_days,
              current_from |-> current_from.v, prior_to |-> current_from.v,
              prior_from |-> prior_from.v]

\* personalization: current_from, prior_to and prior_from.
window_bounds(as_of, window_days) ==
    LET current_from == checked_sub_signed(as_of, window_days - 1)
        prior_to == IF current_from.some THEN pred_opt(current_from.v) ELSE None
        prior_from == IF prior_to.some
                      THEN checked_sub_signed(prior_to.v, window_days - 1) ELSE None
    IN  IF ~current_from.some \/ ~prior_to.some \/ ~prior_from.some
        THEN InvalidInput("invalid date range")
        ELSE [kind |-> "ok", set |-> TRUE, as_of |-> as_of, window_days |-> window_days,
              current_from |-> current_from.v, prior_to |-> prior_to.v,
              prior_from |-> prior_from.v]

\* Mutant of window_days_valid: zero days are let through.
window_days_valid_from_zero(window_days) == window_days >= 0 /\ window_days <= 365

\* (1..=365).contains(&window_days)
window_days_valid(window_days) == window_days >= 1 /\ window_days <= 365

\* SELECT ... FROM v_daily_sleep WHERE wake_date BETWEEN ? AND ? ORDER BY wake_date
fetch_daily_rows(store, from, to) ==
    Filter(store, LAMBDA r : r.wake_date >= from /\ r.wake_date <= to)

\* personalization up to its only await: the validation and the window bounds.
PersonalizationBegin(q) ==
    /\ pc = "idle"
    /\ req' = [endpoint |-> "personalization", window_days |-> q.window_days, to |-> q.to]
    /\ LET window_days == IF q.window_days.some THEN q.window_days.v ELSE 28
           as_of == IF q.to.some THEN parse_date_field(q.to.v, "to")
                    ELSE [kind |-> "ok", date |-> clock]
           w == window_bounds(as_of.date, window_days)
       IN  IF ~window_days_valid(window_days)
           THEN /\ resp' = InvalidInput("window_days must be between 1 and 365")
                /\ pc' = "done"
                /\ win' = win
           ELSE IF as_of.kind # "ok"
           THEN /\ resp' = as_of
                /\ pc' = "done"
                /\ win' = win
           ELSE IF w.kind # "ok"
           THEN /\ resp' = w
                /\ pc' = "done"
                /\ win' = win
           ELSE /\ win' = [f \in DOMAIN w \ {"kind"} |-> w[f]]
                /\ pc' = "read"
                /\ resp' = resp
    /\ UNCHANGED <<rows, events, clock, reads, fetched>>
    /\ UNCHANGED <<timeVars, crudVars, authVars, exercise_events>>

\* The read of v_daily_sleep.
PersonalizationRead ==
    /\ pc = "read"
    /\ req.endpoint = "personalization"
    /\ fetched' = fetch_daily_rows(rows, win.prior_from, win.as_of)
    /\ reads' = reads + 1
    /\ pc' = "compute"
    /\ UNCHANGED <<rows, events, clock, req, win, resp>>
    /\ UNCHANGED <<timeVars, crudVars, authVars, exercise_events>>

\* personalization after the rows arrived.
personalization_response(read, w) ==
    LET samples == Map(read, to_day_sample)
        current_samples ==
            Filter(samples, LAMBDA x : x.wake_date >= w.current_from /\ x.wake_date <= w.as_of)
        prior_samples ==
            Filter(samples, LAMBDA x : x.wake_date >= w.prior_from /\ x.wake_date <= w.prior_to)
    IN  [kind |-> "ok", as_of |-> w.as_of, window_days |-> w.window_days]
            @@ build_personalization_calc(current_samples, prior_samples, w.current_from,
                                          w.as_of, w.prior_from, w.prior_to, w.window_days)

PersonalizationRespond ==
    /\ pc = "compute"
    /\ req.endpoint = "personalization"
    /\ resp' = personalization_response(fetched, win)
    /\ pc' = "done"
    /\ UNCHANGED <<rows, events, clock, req, win, reads, fetched>>
    /\ UNCHANGED <<timeVars, crudVars, authVars, exercise_events>>

-----------------------------------------------------------------------------
(* trends.rs: the sleep_bars and summary handlers                           *)

\* parse_and_validate_date_range: both dates parse and to is not before
\* from.
parse_and_validate_date_range(from, to) ==
    LET from_date == parse_date_field(from, "from")
        to_date == parse_date_field(to, "to")
    IN  IF from_date.kind # "ok" THEN from_date
        ELSE IF to_date.kind # "ok" THEN to_date
        ELSE IF to_date.date < from_date.date THEN InvalidInput("to must be >= from")
        ELSE [kind |-> "ok", set |-> TRUE, from |-> from_date.date, to |-> to_date.date]

\* Mutant of parse_and_validate_date_range: a range that ends before it
\* starts is let through.
parse_and_validate_date_range_unordered(from, to) ==
    LET from_date == parse_date_field(from, "from")
        to_date == parse_date_field(to, "to")
    IN  IF from_date.kind # "ok" THEN from_date
        ELSE IF to_date.kind # "ok" THEN to_date
        ELSE [kind |-> "ok", set |-> TRUE, from |-> from_date.date, to |-> to_date.date]

\* The year a date falls in.
YearOf(date) ==
    CHOOSE y \in 2020..2030 : DaysFromCivil(y, 1, 1) <= date /\ date < DaysFromCivil(y + 1, 1, 1)

\* NaiveDate::iso_week: the week of the date's Thursday.
iso_week(date) ==
    LET thursday == date - Weekday(date) + 3
        year == YearOf(thursday)
    IN  [year |-> year, week |-> (thursday - DaysFromCivil(year, 1, 1)) \div 7 + 1]

\* The bucket key of a row: the text of a date or of an ISO week, kept as the
\* numbers it is written from; within 4-digit years the texts sort as these do.
bucket_key(bucket, wake_date) ==
    IF bucket = "day" THEN <<wake_date, 0>>
    ELSE <<iso_week(wake_date).year, iso_week(wake_date).week>>

KeyLt(a, b) == a[1] < b[1] \/ (a[1] = b[1] /\ a[2] < b[2])

SeqMin(s) == CHOOSE x \in {s[i] : i \in 1..Len(s)} : \A i \in 1..Len(s) : x <= s[i]
SeqMax(s) == CHOOSE x \in {s[i] : i \in 1..Len(s)} : \A i \in 1..Len(s) : x >= s[i]

\* Mutant of select_median: an even count answers the upper middle element.
select_median_upper_middle(latencies) ==
    LET sorted == SortSeq(latencies, LAMBDA x, y : x < y)
    IN  [num |-> sorted[Len(latencies) \div 2 + 1], den |-> 1]

\* The median of a bucket's latencies by selection: the middle one, or the
\* mean of the largest of the lower half and the smallest of the upper half.
select_median(latencies) ==
    LET n == Len(latencies)
        sorted == SortSeq(latencies, LAMBDA x, y : x < y)
        mid == n \div 2
    IN  IF n % 2 = 1 THEN [num |-> sorted[mid + 1], den |-> 1]
        ELSE [num |-> sorted[mid] + sorted[mid + 1], den |-> 2]

\* One bucket of the summary: the three lines pushed for a key.
summary_bucket(key, vals) ==
    LET count == Len(vals)
        durs == [i \in 1..count |-> vals[i].duration_min]
        quals == [i \in 1..count |-> vals[i].quality.v]
        lats == [i \in 1..count |-> vals[i].latency_min]
    IN  [bucket |-> key,
         avg_min |-> [num |-> SeqSum(durs), den |-> count],
         min_min |-> SeqMin(durs), max_min |-> SeqMax(durs),
         avg |-> [num |-> SeqSum(quals), den |-> count],
         median |-> select_median(lats)]

\* summary after the rows arrived: the BTreeMap of buckets in key order.  A
\* row whose quality is NULL does not decode into SummaryRow: a database
\* error.
summary_response(read, bucket) ==
    IF \E i \in 1..Len(read) : ~read[i].quality.some THEN [kind |-> "err", err |-> "Db"]
    ELSE LET key == [i \in 1..Len(read) |-> bucket_key(bucket, read[i].wake_date)]
             keys == [i \in 1..Len(read) |->
                         [k |-> key[i], first |-> \A j \in 1..(i - 1) : key[j] # key[i]]]
             distinct == SelectSeq(keys, LAMBDA e : e.first)
             ordered == SortSeq([i \in 1..Len(distinct) |-> distinct[i].k], KeyLt)
             lines == [k \in 1..Len(ordered) |->
                          summary_bucket(ordered[k],
                              SelectSeq(read, LAMBDA r :
                                  bucket_key(bucket, r.wake_date) = ordered[k]))]
         IN  [kind |-> "ok",
              duration_by_bucket |->
                  [k \in 1..Len(lines) |->
                      [bucket |-> lines[k].bucket, avg_min |-> lines[k].avg_min,
                       min_min |-> lines[k].min_min, max_min |-> lines[k].max_min]],
              quality_by_bucket |->
                  [k \in 1..Len(lines) |-> [bucket |-> lines[k].bucket, avg |-> lines[k].avg]],
              latency_by_bucket |->
                  [k \in 1..Len(lines) |->
                      [bucket |-> lines[k].bucket, median |-> lines[k].median]]]

\* sleep_bars after the rows arrived: one bar per row.
sleep_bars_response(read) ==
    [kind |-> "ok",
     bars |-> [i \in 1..Len(read) |->
                  [date |-> read[i].wake_date, bed_time |-> read[i].bed_time,
                   wake_time |-> read[i].wake_time, quality |-> read[i].quality,
                   duration_min |-> Some(read[i].duration_min)]]]

\* sleep_bars up to its only await.
SleepBarsBegin(q) ==
    /\ pc = "idle"
    /\ req' = [endpoint |-> "sleep_bars", from |-> q.from, to |-> q.to, bucket |-> None]
    /\ LET range == parse_and_validate_date_range(q.from, q.to)
       IN  IF range.kind # "ok"
           THEN /\ resp' = range
                /\ pc' = "done"
                /\ win' = win
           ELSE /\ win' = [set |-> TRUE, from |-> range.from, to |-> range.to]
                /\ pc' = "read"
                /\ resp' = resp
    /\ UNCHANGED <<rows, events, clock, reads, fetched>>
    /\ UNCHANGED <<timeVars, crudVars, authVars, exercise_events>>

\* summary up to its only await.
SummaryBegin(q) ==
    /\ pc = "idle"
    /\ req' = [endpoint |-> "summary", from |-> q.from, to |-> q.to, bucket |-> q.bucket]
    /\ LET range == parse_and_validate_date_range(q.from, q.to)
           bucket == IF q.bucket.some THEN q.bucket.v ELSE "day"
       IN  IF range.kind # "ok"
           THEN /\ resp' = range
                /\ pc' = "done"
                /\ win' = win
           ELSE IF bucket # "day" /\ bucket # "week"
           THEN /\ resp' = InvalidInput("bucket must be day or week")
                /\ pc' = "done"
                /\ win' = win
           ELSE /\ win' = [set |-> TRUE, from |-> range.from, to |-> range.to]
                /\ pc' = "read"
                /\ resp' = resp
    /\ UNCHANGED <<rows, events, clock, reads, fetched>>
    /\ UNCHANGED <<timeVars, crudVars, authVars, exercise_events>>

\* The read of v_daily_sleep by either handler.
RangeRead ==
    /\ pc = "read"
    /\ req.endpoint \in {"sleep_bars", "summary"}
    /\ fetched' = fetch_daily_rows(rows, win.from, win.to)
    /\ reads' = reads + 1
    /\ pc' = "compute"
    /\ UNCHANGED <<rows, events, clock, req, win, resp>>
    /\ UNCHANGED <<timeVars, crudVars, authVars, exercise_events>>

SleepBarsRespond ==
    /\ pc = "compute"
    /\ req.endpoint = "sleep_bars"
    /\ resp' = sleep_bars_response(fetched)
    /\ pc' = "done"
    /\ UNCHANGED <<rows, events, clock, req, win, reads, fetched>>
    /\ UNCHANGED <<timeVars, crudVars, authVars, exercise_events>>

SummaryRespond ==
    /\ pc = "compute"
    /\ req.endpoint = "summary"
    /\ resp' = summary_response(fetched, IF req.bucket.some THEN req.bucket.v ELSE "day")
    /\ pc' = "done"
    /\ UNCHANGED <<rows, events, clock, req, win, reads, fetched>>
    /\ UNCHANGED <<timeVars, crudVars, authVars, exercise_events>>

-----------------------------------------------------------------------------
(* handlers.rs: friction_backlog.  An f64 of the handler is kept exactly as  *)
(* a fraction [num, den] in lowest terms with den > 0.                      *)

RECURSIVE GCD(_, _)
GCD(a, b) == IF b = 0 THEN a ELSE GCD(b, a % b)

Rat(n, d) ==
    LET g == GCD(Abs(n), d)
    IN  [num |-> n \div g, den |-> d \div g]

RatZero == [num |-> 0, den |-> 1]
RatAdd(a, b) == Rat(a.num * b.den + b.num * a.den, a.den * b.den)
RatSub(a, b) == Rat(a.num * b.den - b.num * a.den, a.den * b.den)
RatMul(a, b) == Rat(a.num * b.num, a.den * b.den)
\* f64::max(0.0)
RatMax0(a) == IF a.num < 0 THEN RatZero ELSE a
\* a >= b for fractions that are not negative.
RatGe(a, b) == ProductGe(Product(a.num, b.den), Product(b.num, a.den))

start_of_day(date) == Ndt(date, Hms(0, 0, 0))
end_of_day(date) == Ndt(date, Hms(23, 59, 59))

\* friction_backlog: current_from, prior_to and prior_from.
friction_window_bounds(as_of, window_days) ==
    LET current_from == checked_sub_signed(as_of, window_days - 1)
        prior_to == IF current_from.some THEN pred_opt(current_from.v) ELSE None
        prior_from == IF prior_to.some
                      THEN checked_sub_signed(prior_to.v, window_days - 1) ELSE None
    IN  IF ~current_from.some \/ ~prior_to.some \/ ~prior_from.some
        THEN InvalidInput("invalid date range")
        ELSE [kind |-> "ok", set |-> TRUE, as_of |-> as_of, window_days |-> window_days,
              current_from |-> current_from.v, prior_to |-> prior_to.v,
              prior_from |-> prior_from.v]

\* The telemetry rows recorded in [from, to].
events_in_window(store, from, to) ==
    Filter(store, LAMBDA e : NdtLe(from, e.recorded_at) /\ NdtLe(e.recorded_at, to))

CountIf(s, keep(_)) == Len(Filter(s, keep))

\* repository::aggregate_friction_window
aggregate_friction_window(store, from, to) ==
    LET in == events_in_window(store, from, to)
        n == Len(in)
    IN  [submit_count |-> n,
         avg_form_time_ms |->
             IF n = 0 THEN RatZero ELSE Rat(SeqSum(Map(in, LAMBDA e : e.form_time_ms)), n),
         error_count |-> CountIf(in, LAMBDA e : e.error_kind.some),
         retries_total |-> SeqSum(Map(in, LAMBDA e : e.retry_count)),
         immediate_edit_count |-> CountIf(in, LAMBDA e : e.immediate_edit),
         follow_up_failure_count |-> CountIf(in, LAMBDA e : e.follow_up_failure)]

\* The error kinds of a list of events, each once, in the order of their
\* first event.
distinct_kinds(in) ==
    LET firsts == { i \in 1..Len(in) :
                      /\ in[i].error_kind.some
                      /\ \A j \in 1..(i - 1) : in[j].error_kind # in[i].error_kind }
    IN  [k \in 1..Cardinality(firsts) |->
            in[CHOOSE i \in firsts : Cardinality({j \in firsts : j < i}) = k - 1]
                .error_kind.v]

\* repository::aggregate_friction_error_kinds_window
aggregate_friction_error_kinds_window(store, from, to) ==
    LET in == events_in_window(store, from, to)
        of(kind) == Filter(in, LAMBDA e : e.error_kind = Some(kind))
    IN  Map(distinct_kinds(in), LAMBDA kind :
            [error_kind |-> kind,
             occurrences |-> Len(of(kind)),
             retries_total |-> SeqSum(Map(of(kind), LAMBDA e : e.retry_count)),
             avg_form_time_ms |->
                 Rat(SeqSum(Map(of(kind), LAMBDA e : e.form_time_ms)), Len(of(kind))),
             immediate_edit_count |-> CountIf(of(kind), LAMBDA e : e.immediate_edit),
             follow_up_failure_count |-> CountIf(of(kind), LAMBDA e : e.follow_up_failure)])

\* Mutant of at_least_medium: only high counts.
at_least_medium_high_only(confidence) == confidence = "high"

\* FrictionProposalConfidence::at_least_medium
at_least_medium(confidence) == confidence \in {"medium", "high"}

\* prior_by_kind.get(&current.error_kind)
prior_of(prior_kinds, kind) ==
    LET hit == Filter(prior_kinds, LAMBDA p : p.error_kind = kind)
    IN  IF hit = <<>> THEN None ELSE Some(hit[Len(hit)])

\* x as f64 / occurrences as f64 when occurrences > 0, otherwise 0.0
per_occurrence(x, occurrences) == IF occurrences > 0 THEN Rat(x, occurrences) ELSE RatZero

\* Mutant of proposal_confidence: the floors are asked of the current window
\* alone.
proposal_confidence_current_only(minimum_sample_met, persistence_two_windows, cur_n, prior_n) ==
    IF minimum_sample_met /\ persistence_two_windows /\ cur_n >= 12 THEN "high"
    ELSE IF minimum_sample_met /\ persistence_two_windows /\ cur_n >= 4 THEN "medium"
    ELSE "low"

proposal_confidence(minimum_sample_met, persistence_two_windows, cur_n, prior_n) ==
    IF minimum_sample_met /\ persistence_two_windows /\ cur_n >= 12 /\ prior_n >= 12
    THEN "high"
    ELSE IF minimum_sample_met /\ persistence_two_windows /\ cur_n >= 4 /\ prior_n >= 4
    THEN "medium"
    ELSE "low"

\* current.error_kind.replace(' ', "_"): every space becomes an underscore.
replace_space(text) ==
    [i \in 1..Len(text) |-> IF text[i] = " " THEN "_" ELSE text[i]]

\* format!("friction_reduction_{}", current.error_kind.replace(' ', "_"))
action_key_of(error_kind) ==
    <<"friction", "_", "reduction", "_">> \o replace_space(error_kind)

\* The body of the loop over current_kinds: the proposal pushed for one kind.
friction_proposal(current, prior, current_agg, prior_agg, window_days) ==
    LET prior_occurrences == IF prior.some THEN prior.v.occurrences ELSE 0
        persistence_two_windows == current.occurrences > 0 /\ prior_occurrences > 0
        prior_avg_form_time_ms == IF prior.some THEN prior.v.avg_form_time_ms ELSE RatZero
        prior_retry_avg ==
            IF prior.some THEN per_occurrence(prior.v.retries_total, prior.v.occurrences)
            ELSE RatZero
        current_retry_avg == per_occurrence(current.retries_total, current.occurrences)
        current_failure_rate ==
            per_occurrence(current.follow_up_failure_count, current.occurrences)
        prior_failure_rate ==
            IF prior.some
            THEN per_occurrence(prior.v.follow_up_failure_count, prior.v.occurrences)
            ELSE RatZero
        delta_form_minutes ==
            RatMul(RatMax0(RatSub(current.avg_form_time_ms, prior_avg_form_time_ms)),
                   Rat(1, 60000))
        delta_retry == RatMax0(RatSub(current_retry_avg, prior_retry_avg))
        delta_failure_rate == RatMax0(RatSub(current_failure_rate, prior_failure_rate))
        events_per_week == Rat(current.occurrences * 7, window_days)
        minimum_sample_met == current_agg.submit_count >= 30
        confidence == proposal_confidence(minimum_sample_met, persistence_two_windows,
                                          current.occurrences, prior_occurrences)
    IN  [rank |-> 0,
         action_key |-> action_key_of(current.error_kind),
         observed_evidence |->
             [current_occurrences |-> current.occurrences,
              prior_occurrences |-> prior_occurrences,
              current_submit_count |-> current_agg.submit_count,
              prior_submit_count |-> prior_agg.submit_count,
              current_avg_form_time_ms |-> current.avg_form_time_ms,
              prior_avg_form_time_ms |-> prior_avg_form_time_ms,
              current_retry_avg |-> current_retry_avg,
              prior_retry_avg |-> prior_retry_avg,
              current_follow_up_failure_rate |-> current_failure_rate,
              prior_follow_up_failure_rate |-> prior_failure_rate],
         estimated_minutes_saved_per_week |->
             RatMax0(RatMul(events_per_week,
                 RatAdd(delta_form_minutes,
                        RatAdd(RatMul(delta_retry, Rat(3, 4)),
                               RatMul(delta_failure_rate, Rat(3, 2)))))),
         confidence |-> confidence,
         persistence_two_windows |-> persistence_two_windows,
         auto_promoted |-> at_least_medium(confidence) /\ persistence_two_windows]

\* Mutant of sort_by_estimate: the proposals stay in the order of the kinds.
sort_by_estimate_unsorted(ps) == ps

\* proposals.sort_by(|a, b| b.estimated.total_cmp(&a.estimated)): a stable
\* sort, the largest estimate first.
RECURSIVE sort_by_estimate(_)
sort_by_estimate(ps) ==
    IF ps = <<>> THEN <<>>
    ELSE LET sorted == sort_by_estimate(SubSeq(ps, 1, Len(ps) - 1))
             x == ps[Len(ps)]
             ahead == CountIf(sorted, LAMBDA y :
                          RatGe(y.estimated_minutes_saved_per_week,
                                x.estimated_minutes_saved_per_week))
         IN  SubSeq(sorted, 1, ahead) \o <<x>> \o SubSeq(sorted, ahead + 1, Len(sorted))

\* friction_backlog after its four reads.
friction_backlog_response(read, w) ==
    LET current_agg == read[1]
        prior_agg == read[2]
        proposals == Map(read[3], LAMBDA current :
            friction_proposal(current, prior_of(read[4], current.error_kind),
                              current_agg, prior_agg, w.window_days))
        sorted == sort_by_estimate(proposals)
    IN  [kind |-> "ok", as_of |-> w.as_of, window_days |-> w.window_days,
         minimum_sample_met |-> current_agg.submit_count >= 30,
         current_window |-> [from |-> w.current_from, to |-> w.as_of,
                             submit_count |-> current_agg.submit_count],
         prior_window |-> [from |-> w.prior_from, to |-> w.prior_to,
                           submit_count |-> prior_agg.submit_count],
         proposals |-> [i \in 1..Len(sorted) |-> [sorted[i] EXCEPT !.rank = i]]]

\* friction_backlog up to its first await: the validation and the window
\* bounds.
FrictionBegin(q) ==
    /\ pc = "idle"
    /\ req' = [endpoint |-> "friction_backlog", window_days |-> q.window_days, to |-> q.to]
    /\ LET as_of == IF q.to.some THEN q.to.v ELSE clock
           w == friction_window_bounds(as_of, q.window_days)
       IN  IF ~(q.window_days >= 1 /\ q.window_days <= 365)
           THEN /\ resp' = InvalidInput("window_days must be between 1 and 365")
                /\ pc' = "done"
                /\ win' = win
           ELSE IF w.kind # "ok"
           THEN /\ resp' = w
                /\ pc' = "done"
                /\ win' = win
           ELSE /\ win' = [f \in DOMAIN w \ {"kind"} |-> w[f]]
                /\ pc' = "read"
                /\ resp' = resp
    /\ UNCHANGED <<rows, events, clock, reads, fetched>>
    /\ UNCHANGED <<timeVars, crudVars, authVars, exercise_events>>

\* The next of the four awaited reads of friction_backlog, in the order of
\* the code: current_agg, prior_agg, current_kinds, prior_kinds.
friction_read(store, w, k) ==
    CASE k = 1 -> aggregate_friction_window(store, start_of_day(w.current_from),
                                            end_of_day(w.as_of))
      [] k = 2 -> aggregate_friction_window(store, start_of_day(w.prior_from),
                                            end_of_day(w.prior_to))
      [] k = 3 -> aggregate_friction_error_kinds_window(store,
                      start_of_day(w.current_from), end_of_day(w.as_of))
      [] OTHER -> aggregate_friction_error_kinds_window(store,
                      start_of_day(w.prior_from), end_of_day(w.prior_to))

FrictionRead ==
    /\ pc = "read"
    /\ req.endpoint = "friction_backlog"
    /\ fetched' = Append(fetched, friction_read(events, win, Len(fetched) + 1))
    /\ reads' = reads + 1
    /\ pc' = IF Len(fetched) + 1 = 4 THEN "compute" ELSE "read"
    /\ UNCHANGED <<rows, events, clock, req, win, resp>>
    /\ UNCHANGED <<timeVars, crudVars, authVars, exercise_events>>

FrictionRespond ==
    /\ pc = "compute"
    /\ req.endpoint = "friction_backlog"
    /\ resp' = friction_backlog_response(fetched, win)
    /\ pc' = "done"
    /\ UNCHANGED <<rows, events, clock, req, win, reads, fetched>>
    /\ UNCHANGED <<timeVars, crudVars, authVars, exercise_events>>

\* handlers.rs: validate_friction_input
validate_friction_input(input) ==
    IF input.form_time_ms < 0 THEN InvalidInput("form_time_ms must be >= 0")
    ELSE IF input.retry_count < 0 THEN InvalidInput("retry_count must be >= 0")
    ELSE [kind |-> "ok"]

\* A string is the sequence of its words and of the characters between them:
\* " " is a space and "_" an underscore.
\* str::trim drops the white space at both ends.
RECURSIVE trim(_)
trim(text) ==
    IF text = <<>> THEN <<>>
    ELSE IF Head(text) = " " THEN trim(Tail(text))
    ELSE IF text[Len(text)] = " " THEN trim(SubSeq(text, 1, Len(text) - 1))
    ELSE text

\* str::to_lowercase, on the words the inputs are written with.
to_lowercase(text) ==
    [i \in 1..Len(text) |->
        CASE text[i] = "Validation" -> "validation"
          [] text[i] = "VALIDATION" -> "validation"
          [] text[i] = "Network" -> "network"
          [] OTHER -> text[i]]

\* input.error_kind.map(|value| value.trim().to_lowercase())
\*                 .filter(|value| !value.is_empty())
normalize_error_kind(error_kind) ==
    IF ~error_kind.some THEN None
    ELSE LET value == to_lowercase(trim(error_kind.v))
         IN  IF value = <<>> THEN None ELSE Some(value)

\* repository::insert_friction_telemetry: the row gets the next id and the
\* time of the insert.
insert_friction_telemetry(store, input, now) ==
    Append(store, [id |-> Len(store) + 1, recorded_at |-> now,
                   form_time_ms |-> input.form_time_ms,
                   error_kind |-> input.error_kind,
                   retry_count |-> input.retry_count,
                   immediate_edit |-> input.immediate_edit,
                   follow_up_failure |-> input.follow_up_failure])

MaxInserts == 2

\* handlers.rs: create_friction_telemetry, served at the time of day `at` of
\* the clock's date.  The call is independent of the analytics request in
\* flight, so it may be served between any two of that request's reads.
CreateFrictionTelemetry(input, at) ==
    /\ calls < MaxInserts
    /\ calls' = calls + 1
    /\ LET valid == validate_friction_input(input)
           normalized == [input EXCEPT !.error_kind = normalize_error_kind(@)]
       IN  IF valid.kind # "ok"
           THEN /\ out' = valid
                /\ events' = events
           ELSE /\ events' = insert_friction_telemetry(events, normalized, Ndt(clock, at))
                /\ out' = [kind |-> "ok", id |-> Len(events) + 1]
    /\ UNCHANGED <<rows, clock, req, pc, win, reads, fetched, resp>>
    /\ UNCHANGED <<timeVars, sessions, next_id, user_tz, authVars, exercise_events>>

-----------------------------------------------------------------------------
(* handlers.rs and repository.rs: create_sleep, update_sleep, delete_sleep  *)

\* SleepInput::validate
validate_sleep_input(input) ==
    IF ~(input.latency_min >= 0 /\ input.latency_min <= 180)
    THEN InvalidInput("latency_min must be between 0 and 180")
    ELSE IF ~(input.awakenings >= 0 /\ input.awakenings <= 10)
    THEN InvalidInput("awakenings must be between 0 and 10")
    ELSE [kind |-> "ok"]

\* time::sleep_window_bounds: the bed and wake datetimes of an input, the bed
\* on the previous day when bed_time > wake_time.
sleep_window_bounds(date, bed_time, wake_time) ==
    LET bed_date == bed_date_of(date, bed_time, wake_time)
    IN  IF ~bed_date.some THEN InvalidInput("invalid date (underflow)")
        ELSE [kind |-> "ok", bed_dt |-> Ndt(bed_date.v, bed_time),
              wake_dt |-> Ndt(date, wake_time)]

\* has_sleep_overlap, the CASE of its query: the bed datetime of a stored
\* session, datetime(date || ' ' || bed_time, '-1 day') when
\* s.bed_time > s.wake_time.
stored_bed_dt(s) == Ndt(IF s.bed_time > s.wake_time THEN s.date - 1 ELSE s.date, s.bed_time)

stored_wake_dt(s) == Ndt(s.date, s.wake_time)

\* Mutant of has_sleep_overlap: sessions that only touch do not count.
has_sleep_overlap_strict(store, bed_dt, wake_dt, exclude_id) ==
    \E i \in 1..Len(store) :
        /\ NdtLt(stored_bed_dt(store[i]), wake_dt)
        /\ NdtLt(bed_dt, stored_wake_dt(store[i]))
        /\ exclude_id.some => store[i].id # exclude_id.v

\* repository::has_sleep_overlap:
\* wake_dt >= stored bed AND bed_dt <= stored wake [AND s.id != exclude_id]
has_sleep_overlap(store, bed_dt, wake_dt, exclude_id) ==
    \E i \in 1..Len(store) :
        /\ NdtLe(stored_bed_dt(store[i]), wake_dt)
        /\ NdtLe(bed_dt, stored_wake_dt(store[i]))
        /\ exclude_id.some => store[i].id # exclude_id.v

\* The row of sleep_sessions and sleep_metrics an input is stored as.
session_row(id, input, duration_min) ==
    [id |-> id, date |-> input.date, bed_time |-> input.bed_time,
     wake_time |-> input.wake_time, latency_min |-> input.latency_min,
     awakenings |-> input.awakenings, quality |-> input.quality,
     duration_min |-> duration_min]

\* create_sleep and update_sleep up to the overlap test: the error they
\* return, or the duration to store.
checked_sleep_input(store, input, tz, exclude_id) ==
    LET valid == validate_sleep_input(input)
        bounds == sleep_window_bounds(input.date, input.bed_time, input.wake_time)
        duration == compute_duration_min(input.date, input.bed_time, input.wake_time, tz)
    IN  IF valid.kind # "ok" THEN valid
        ELSE IF bounds.kind # "ok" THEN bounds
        ELSE IF duration.kind # "ok" THEN InvalidInput(duration.msg)
        ELSE IF has_sleep_overlap(store, bounds.bed_dt, bounds.wake_dt, exclude_id)
        THEN InvalidInput("sleep session overlaps existing session")
        ELSE [kind |-> "ok", mins |-> duration.mins]

MaxCalls == 3

Called(op, id, input, result) == [op |-> op, id |-> id, input |-> input, result |-> result]

\* handlers.rs: create_sleep
CreateSleep(input) ==
    /\ calls < MaxCalls
    /\ calls' = calls + 1
    /\ LET checked == checked_sleep_input(sessions, input, user_tz, None)
       IN  IF checked.kind # "ok"
           THEN /\ out' = Called("create_sleep", 0, input, checked)
                /\ UNCHANGED <<sessions, next_id>>
           ELSE /\ sessions' = Append(sessions, session_row(next_id, input, checked.mins))
                /\ next_id' = next_id + 1
                /\ out' = Called("create_sleep", 0, input, [kind |-> "ok", id |-> next_id])
    /\ UNCHANGED <<timeVars, trendVars, user_tz, clientVars, exercise_events>>

\* Mutant of update_sleep: the call reports success without testing that a
\* row has the id.
update_sleep_without_existence_test(store, id, input, duration_min) ==
    [updated |-> TRUE,
     store |-> [i \in 1..Len(store) |->
                   IF store[i].id = id THEN session_row(id, input, duration_min)
                   ELSE store[i]]]

\* repository::update_sleep: one transaction that writes the session and
\* metrics rows of `id`, or is rolled back and returns false when no row has
\* the id.
update_sleep(store, id, input, duration_min) ==
    IF \A i \in 1..Len(store) : store[i].id # id
    THEN [updated |-> FALSE, store |-> store]
    ELSE [updated |-> TRUE,
          store |-> [i \in 1..Len(store) |->
                        IF store[i].id = id THEN session_row(id, input, duration_min)
                        ELSE store[i]]]

\* handlers.rs: update_sleep
UpdateSleep(id, input) ==
    /\ calls < MaxCalls
    /\ calls' = calls + 1
    /\ LET checked == checked_sleep_input(sessions, input, user_tz, Some(id))
           written == update_sleep(sessions, id, input, checked.mins)
       IN  IF checked.kind # "ok"
           THEN /\ out' = Called("update_sleep", id, input, checked)
                /\ sessions' = sessions
           ELSE IF ~written.updated
           THEN /\ out' = Called("update_sleep", id, input,
                                 [kind |-> "err", err |-> "NotFound"])
                /\ sessions' = written.store
           ELSE /\ sessions' = written.store
                /\ out' = Called("update_sleep", id, input, [kind |-> "ok"])
    /\ UNCHANGED <<timeVars, trendVars, next_id, user_tz, clientVars, exercise_events>>

\* handlers.rs: delete_sleep, returning the number of rows deleted
DeleteSleep(id) ==
    /\ calls < MaxCalls
    /\ calls' = calls + 1
    /\ sessions' = Filter(sessions, LAMBDA s : s.id # id)
    /\ out' = Called("delete_sleep", id, None,
                     [kind |-> "ok", deleted |-> Len(sessions) - Len(sessions')])
    /\ UNCHANGED <<timeVars, trendVars, next_id, user_tz, clientVars, exercise_events>>

\* error.rs, ApiError::into_response, and the status the sleep routes of
\* app.rs answer a call that succeeded with.
http_status(op, result) ==
    IF result.kind = "ok"
    THEN IF op = "create_sleep" THEN 201 ELSE 204
    ELSE CASE result.err = "NotFound" -> 404
           [] result.err = "InvalidInput" -> 400
           [] OTHER -> 500

-----------------------------------------------------------------------------
(* The guards of the mutating routes (app.rs): the session extractor and    *)
(* the CSRF guard, run in the order of the handler's arguments.  A header   *)
(* or cookie text is the sequence of its bytes.  A session cookie is the    *)
(* user id sealed with the server's key; the server keeps no list of the    *)
(* sessions it issued.                                                      *)

PercentByte == 37

\* char::to_digit(16) of a byte
to_digit16(b) ==
    IF b \in 48..57 THEN Some(b - 48)
    ELSE IF b \in 65..70 THEN Some(b - 55)
    ELSE IF b \in 97..102 THEN Some(b - 87)
    ELSE None

\* String::from_utf8(bytes).is_ok()
RECURSIVE is_utf8(_)
is_utf8(bytes) ==
    IF bytes = <<>> THEN TRUE
    ELSE LET b == Head(bytes)
             n == IF b < 128 THEN 0
                  ELSE IF b \in 194..223 THEN 1
                  ELSE IF b \in 224..239 THEN 2
                  ELSE IF b \in 240..244 THEN 3
                  ELSE 4
             second == IF b = 224 THEN 160..191
                       ELSE IF b = 237 THEN 128..159
                       ELSE IF b = 240 THEN 144..191
                       ELSE IF b = 244 THEN 128..143
                       ELSE 128..191
         IN  /\ n < 4
             /\ Len(bytes) > n
             /\ n >= 1 => bytes[2] \in second
             /\ \A i \in 3..(n + 1) : bytes[i] \in 128..191
             /\ is_utf8(SubSeq(bytes, n + 2, Len(bytes)))

\* csrf.rs: the loop of percent_decode from byte i (1-based) on, with the
\* bytes decoded so far.
RECURSIVE percent_decode_from(_, _, _)
percent_decode_from(bytes, i, decoded) ==
    IF i > Len(bytes) THEN Some(decoded)
    ELSE IF bytes[i] = PercentByte
    THEN IF i + 2 > Len(bytes) THEN None
         ELSE LET h1 == to_digit16(bytes[i + 1])
                  h2 == to_digit16(bytes[i + 2])
              IN  IF h1 = None \/ h2 = None THEN None
                  ELSE percent_decode_from(bytes, i + 3,
                                           Append(decoded, (h1.v * 16 + h2.v) % 256))
    ELSE percent_decode_from(bytes, i + 1, Append(decoded, bytes[i]))

\* csrf.rs: percent_decode
percent_decode(s) ==
    LET decoded == percent_decode_from(s, 1, <<>>)
    IN  IF decoded # None /\ is_utf8(decoded.v) THEN decoded ELSE None

Rejected(status, detail) == [kind |-> "rejected", status |-> status, detail |-> detail]

Extracted == [kind |-> "ok"]

\* csrf.rs: forbidden
forbidden(detail) == Rejected(403, detail)

\* auth_layer.rs: unauthorized
unauthorized == Rejected(401, "unauthorized")

\* csrf.rs: CsrfGuard::from_request_parts.  sec_fetch_site is the header
\* after to_ascii_lowercase.
CsrfGuard(request) ==
    IF request.method \notin {"POST", "PUT", "DELETE"} THEN Extracted
    ELSE IF /\ request.sec_fetch_site # None
            /\ request.sec_fetch_site.v \notin {"same-origin", "same-site"}
    THEN forbidden("csrf: cross-site request rejected")
    ELSE IF request.cookie.csrf = None THEN forbidden("csrf: missing cookie")
    ELSE IF request.x_csrf_token = None THEN forbidden("csrf: missing header token")
    ELSE LET token_raw == request.x_csrf_token.v
             decoded == percent_decode(token_raw)
             token == IF (\E i \in 1..Len(token_raw) : token_raw[i] = PercentByte)
                         /\ decoded # None
                      THEN decoded.v ELSE token_raw
         IN  IF token # request.cookie.csrf.v
             THEN forbidden("csrf: token mismatch")
             ELSE Extracted

\* auth.rs: create_session_cookie, the cookie a PrivateCookieJar seals
create_session_cookie(user_id) == Some([user |-> user_id, sealed |-> TRUE])

\* auth.rs: current_user_from_cookie; the private jar yields only a cookie
\* that was sealed with the server's key.
current_user_from_cookie(cookie) ==
    IF cookie.session # None /\ cookie.session.v.sealed
    THEN Some(cookie.session.v.user)
    ELSE None

\* auth_layer.rs: RequireSessionJson::from_request_parts
RequireSessionJson(request) ==
    IF current_user_from_cookie(request.cookie) # None THEN Extracted
    ELSE unauthorized

AdminEmail == <<"admin@example.com">>
AdminPassword == <<"password123">>

\* auth.rs: verify_login, with ADMIN_PASSWORD_HASH the hash of AdminPassword
verify_login(email, password) ==
    IF email # AdminEmail THEN FALSE ELSE password = AdminPassword

\* app.rs: post_login_json.  `token` is the random value issue_csrf_cookie
\* draws; the client stores the cookies of the response and copies them.
PostLoginJson(creds, token) ==
    /\ IF verify_login(creds.email, creds.password)
       THEN /\ cookies' = [session |-> create_session_cookie("admin"),
                           csrf |-> Some(token)]
            /\ copied' = cookies'
            /\ out' = [op |-> "post_login_json", status |-> 200]
       ELSE /\ out' = [op |-> "post_login_json", status |-> 401]
            /\ UNCHANGED clientVars
    /\ sent' = NoRequestSent
    /\ UNCHANGED <<timeVars, trendVars, sessions, next_id, user_tz, calls, exercise_events>>

\* app.rs: post_logout.  The removal cookies of the response empty the
\* client's cookie store; what the client copied earlier stays with it.
PostLogout(request) ==
    /\ request.method = "POST"
    /\ LET csrf == CsrfGuard(request)
       IN  IF csrf # Extracted
           THEN /\ out' = [op |-> "post_logout", status |-> csrf.status]
                /\ UNCHANGED clientVars
           ELSE /\ cookies' = NoCookies
                /\ out' = [op |-> "post_logout", status |-> 204]
                /\ UNCHANGED copied
    /\ sent' = request
    /\ UNCHANGED <<timeVars, trendVars, sessions, next_id, user_tz, calls, exercise_events>>

\* The method of each sleep route of app.rs::router.
route_method(op) ==
    CASE op = "create_sleep" -> "POST"
      [] op = "update_sleep" -> "PUT"
      [] op = "delete_sleep" -> "DELETE"

\* app.rs: create_sleep, update_sleep and delete_sleep: the extractors in
\* the order of the arguments, then the call of handlers.rs.
SleepRequest(op, id, input, request) ==
    /\ request.method = route_method(op)
    /\ sent' = request
    /\ LET session == RequireSessionJson(request)
           csrf == CsrfGuard(request)
       IN  IF session # Extracted
           THEN /\ out' = Called(op, id, input, session)
                /\ UNCHANGED <<timeVars, trendVars, sessions, next_id, user_tz, calls, clientVars, exercise_events>>
           ELSE IF csrf # Extracted
           THEN /\ out' = Called(op, id, input, csrf)
                /\ UNCHANGED <<timeVars, trendVars, sessions, next_id, user_tz, calls, clientVars, exercise_events>>
           ELSE CASE op = "create_sleep" -> CreateSleep(input)
                  [] op = "update_sleep" -> UpdateSleep(id, input)
                  [] op = "delete_sleep" -> DeleteSleep(id)

\* The status a sleep route answered with.
answered(called) ==
    IF called.result.kind = "rejected" THEN called.result.status
    ELSE http_status(called.op, called.result)

-----------------------------------------------------------------------------
(* handlers.rs and repository.rs: create_exercise and the exercise          *)
(* intensity listing.  The dates are days of years written with four        *)
(* digits, whose stored text is ordered as the dates are.                   *)

MAX_EXERCISE_DURATION_MIN == 24 * 60

\* ExerciseInput::validate
validate_exercise_input(input) ==
    IF /\ input.duration_min.some
       /\ ~(1 <= input.duration_min.v /\ input.duration_min.v <= MAX_EXERCISE_DURATION_MIN)
    THEN InvalidInput("duration_min must be between 1 and 1440")
    ELSE [kind |-> "ok"]

\* INSERT INTO exercise_events(date, intensity, start_time, duration_min):
\* the row gets the next rowid.
exercise_row_added(table, date, intensity, start_time, duration_min) ==
    [table |-> Append(table, [id |-> Len(table) + 1, date |-> date,
                              intensity |-> intensity, start_time |-> start_time,
                              duration_min |-> duration_min]),
     id |-> Len(table) + 1]

\* Mutant of insert_exercise: the sentinel row is added without looking for
\* the one of the date.
insert_exercise_without_upsert(table, input) ==
    exercise_row_added(table, input.date, input.intensity, input.start_time,
                       input.duration_min)

\* repository::insert_exercise, one transaction.  fetch_optional takes the
\* first row the SELECT finds, here the one of the least id.
insert_exercise(table, input) ==
    IF ~input.start_time.some /\ ~input.duration_min.some
    THEN LET found == { i \in 1..Len(table) :
                          /\ table[i].date = input.date
                          /\ ~table[i].start_time.some
                          /\ ~table[i].duration_min.some }
         IN  IF found # {}
             THEN LET existing == CHOOSE i \in found : \A j \in found : i <= j
                  IN  [table |-> [table EXCEPT ![existing].intensity = input.intensity],
                       id |-> table[existing].id]
             ELSE exercise_row_added(table, input.date, input.intensity, None, None)
    ELSE exercise_row_added(table, input.date, input.intensity, input.start_time,
                            input.duration_min)

\* CASE intensity WHEN 'none' THEN 0 WHEN 'light' THEN 1 WHEN 'hard' THEN 2
\* ELSE 0 END
intensity_ordinal(intensity) ==
    CASE intensity = "none" -> 0
      [] intensity = "light" -> 1
      [] intensity = "hard" -> 2
      [] OTHER -> 0

\* CASE MAX(...) WHEN 2 THEN 'hard' WHEN 1 THEN 'light' ELSE 'none' END
intensity_of_ordinal(ordinal) ==
    CASE ordinal = 2 -> "hard"
      [] ordinal = 1 -> "light"
      [] OTHER -> "none"

\* Mutant of list_exercise_intensity: the intensity of the row added last
\* to the date.
list_exercise_intensity_latest(table, from, to) ==
    LET in == { i \in 1..Len(table) : from <= table[i].date /\ table[i].date <= to }
        dates == { table[i].date : i \in in }
        latest(d) == CHOOSE i \in in : table[i].date = d /\
                         \A j \in in : table[j].date = d => j <= i
    IN  [k \in 1..Cardinality(dates) |->
            LET d == CHOOSE x \in dates : Cardinality({y \in dates : y < x}) = k - 1
            IN  [date |-> d, intensity |-> table[latest(d)].intensity]]

\* repository::list_exercise_intensity: WHERE date BETWEEN from AND to
\* GROUP BY date ORDER BY date ASC.
list_exercise_intensity(table, from, to) ==
    LET in == { i \in 1..Len(table) : from <= table[i].date /\ table[i].date <= to }
        dates == { table[i].date : i \in in }
        max_ordinal(d) ==
            CHOOSE m \in { intensity_ordinal(table[i].intensity) :
                              i \in { j \in in : table[j].date = d } } :
                \A i \in in : table[i].date = d => intensity_ordinal(table[i].intensity) <= m
    IN  [k \in 1..Cardinality(dates) |->
            LET d == CHOOSE x \in dates : Cardinality({y \in dates : y < x}) = k - 1
            IN  [date |-> d, intensity |-> intensity_of_ordinal(max_ordinal(d))]]

\* handlers.rs: create_exercise
CreateExercise(input) ==
    /\ calls < MaxCalls
    /\ calls' = calls + 1
    /\ LET valid == validate_exercise_input(input)
           inserted == insert_exercise(exercise_events, input)
       IN  IF valid.kind # "ok"
           THEN /\ out' = Called("create_exercise", 0, input, valid)
                /\ UNCHANGED exercise_events
           ELSE /\ exercise_events' = inserted.table
                /\ out' = Called("create_exercise", 0, input,
                                 [kind |-> "ok", id |-> inserted.id])
    /\ UNCHANGED <<timeVars, trendVars, sessions, next_id, user_tz, authVars>>

\* repository::list_exercise_intensity called on the table as it is.
ListExerciseIntensity(from, to) ==
    /\ out' = Called("list_exercise_intensity", 0, [from |-> from, to |-> to],
                     [kind |-> "ok",
                      items |-> list_exercise_intensity(exercise_events, from, to)])
    /\ UNCHANGED <<timeVars, trendVars, sessions, next_id, user_tz, calls, authVars>>
    /\ UNCHANGED exercise_events

-----------------------------------------------------------------------------
(* The stores the analytics are checked on.  A store is what create_sleep   *)
(* leaves behind for a user in Asia/Tokyo who logs one session per wake     *)
(* date over two windows ending on AnchorDate; the habits below decide the  *)
(* times of each date and which dates were logged at all.                   *)

SmallWindow == 14
BigWindow == 60

AnchorDate == DaysFromCivil(2025, 6, 28)

Habits ==
    [ W : {SmallWindow, BigWindow},     \* days per window
      weShift : {0, 120},               \* weekend nights start later (minutes)
      jitter : {0, 120},                \* every other night starts later
      recent : {0, 120},                \* the last 14 nights start later
      outl : BOOLEAN,                   \* every tenth night lasts an hour longer
      qual : BOOLEAN,                   \* quality is recorded
      keepCur : {"all", "sparse"},
      keepPrior : {"all", "dropOne", "fewWeekends"} ]

HabitRow(h, date) ==
    LET idx == AnchorDate - date
        weekend == Weekday(date) \in {5, 6}
        outlier == h.outl /\ idx % 10 = 3
        shift == (IF weekend THEN h.weShift ELSE 0)
                 + (IF idx % 2 = 1 THEN h.jitter ELSE 0)
                 + (IF idx < 14 THEN h.recent ELSE 0)
        bed_time == (Hms(23, 0, 0) + shift * SecondsPerMinute) % SecondsPerDay
        wake_time == Hms(7, 0, 0) + (shift + IF outlier THEN 60 ELSE 0) * SecondsPerMinute
    IN  [wake_date |-> date, bed_time |-> bed_time, wake_time |-> wake_time,
         duration_min |-> compute_duration_min(date, bed_time, wake_time, Tokyo).mins,
         quality |-> IF ~h.qual THEN None
                     ELSE Some(IF outlier THEN 3 ELSE IF weekend THEN 2 ELSE 4)]

HabitLogged(h, date) ==
    LET idx == AnchorDate - date
        weekend == Weekday(date) \in {5, 6}
    IN  IF idx < h.W
        THEN h.keepCur = "all" \/ idx % 5 < 3
        ELSE CASE h.keepPrior = "all" -> TRUE
               [] h.keepPrior = "dropOne" -> idx # 2 * h.W - 1
               [] OTHER -> ~weekend \/ idx < h.W + 7

HabitStore(h) ==
    Filter([i \in 1..(2 * h.W) |-> HabitRow(h, AnchorDate - 2 * h.W + i)],
           LAMBDA r : HabitLogged(h, r.wake_date))

\* The telemetry store is what create_friction_telemetry leaves behind over
\* two windows of SmallWindow days ending on AnchorDate: every day `clean`
\* submits without an error, a "validation" error every `often` days, and
\* "network timeout" errors every third day of the windows named by `net`
\* ("mixed": of both windows, and written "network_timeout" on the odd days).
TelemetryHabits ==
    [ clean : {1, 3},
      often : {1, 4},
      retryCur : {1, 2},                \* retries of a current "validation" error
      net : {"none", "current", "both", "prior", "mixed"} ]

SlotsPerDay == 5

TelemetrySlot(t, date, j) ==
    LET idx == AnchorDate - date
        current == idx < SmallWindow
    IN  CASE j <= 3 ->
               [present |-> j <= t.clean,
                recorded_at |-> Ndt(date, Hms(12, 0, j)), form_time_ms |-> 6000,
                error_kind |-> None, retry_count |-> 0,
                immediate_edit |-> FALSE, follow_up_failure |-> FALSE]
          [] j = 4 ->
               [present |-> idx % t.often = 0,
                recorded_at |-> start_of_day(date),
                form_time_ms |-> IF current THEN 12000 ELSE 6000,
                error_kind |-> Some(<<"validation">>),
                retry_count |-> IF current THEN t.retryCur ELSE 1,
                immediate_edit |-> FALSE, follow_up_failure |-> current /\ idx % 2 = 0]
          [] j = 5 ->
               [present |-> /\ idx % 3 = 0
                            /\ \/ t.net \in {"both", "mixed"}
                               \/ (t.net = "current" /\ current)
                               \/ (t.net = "prior" /\ ~current),
                recorded_at |-> end_of_day(date), form_time_ms |-> 18000,
                error_kind |-> IF t.net = "mixed" /\ idx % 2 = 1
                               THEN Some(<<"network", "_", "timeout">>)
                               ELSE Some(<<"network", " ", "timeout">>),
                retry_count |-> 3,
                immediate_edit |-> TRUE, follow_up_failure |-> TRUE]
          [] OTHER -> [present |-> FALSE]

TelemetryStore(t) ==
    LET slots == [n \in 1..(2 * SmallWindow * SlotsPerDay) |->
                     TelemetrySlot(t, AnchorDate - 2 * SmallWindow + 1
                                          + (n - 1) \div SlotsPerDay,
                                   ((n - 1) % SlotsPerDay) + 1)]
        kept == Filter(slots, LAMBDA e : e.present)
    IN  [i \in 1..Len(kept) |->
            [id |-> i] @@ [f \in DOMAIN kept[i] \ {"present"} |-> kept[i][f]]]

DefaultHabit ==
    [W |-> SmallWindow, weShift |-> 0, jitter |-> 0, recent |-> 0, outl |-> FALSE,
     qual |-> TRUE, keepCur |-> "all", keepPrior |-> "all"]

DefaultTelemetry == [clean |-> 3, often |-> 1, retryCur |-> 2, net |-> "both"]

\* The stores a run starts from: every sleep habit with the default
\* telemetry, and every telemetry habit with the default sleep habit.
Scenarios ==
    {[h |-> h, t |-> DefaultTelemetry] : h \in Habits}
        \cup {[h |-> DefaultHabit, t |-> t] : t \in TelemetryHabits}

WindowDaysInputs ==
    {None, Some(0), Some(7), Some(SmallWindow), Some(BigWindow), Some(366)}

ToInputs ==
    {None, Some(DateText(2025, 6, 28)), Some(DateText(2025, 2, 30)), Some(Garbage),
     Some(DateText(-262143, 1, 15))}

FrictionWindowDays == {0, 7, SmallWindow, BigWindow, 366}

FrictionTo == {None, Some(AnchorDate), Some(NaiveDateMin + SmallWindow)}

\* No writing call has been served yet: the tables the calls write are taken
\* as they are in `rows` and `events`, and without a user_timezone setting
\* get_user_timezone falls back to APP_TZ.
NoWrites ==
    /\ sessions = <<>>
    /\ next_id = 1
    /\ user_tz = Tokyo
    /\ calls = 0
    /\ out = NoResult
    /\ cookies = NoCookies
    /\ copied = NoCookies
    /\ sent = NoRequestSent
    /\ exercise_events = <<>>

Init ==
    /\ t_in = NoResult
    /\ t_out = NoResult
    /\ NoWrites
    /\ \E sc \in Scenarios :
          /\ rows = HabitStore(sc.h)
          /\ events = TelemetryStore(sc.t)
    /\ clock = AnchorDate + 1
    /\ req = NoRequest
    /\ pc = "idle"
    /\ win = NoWindow
    /\ reads = 0
    /\ fetched = <<>>
    /\ resp = NoResult

Personalization ==
    \/ \E wd \in WindowDaysInputs, to \in ToInputs :
          PersonalizationBegin([window_days |-> wd, to |-> to])
    \/ PersonalizationRead
    \/ PersonalizationRespond

FrictionBacklog ==
    \/ \E wd \in FrictionWindowDays, to \in FrictionTo :
          FrictionBegin([window_days |-> wd, to |-> to])
    \/ FrictionRead
    \/ FrictionRespond

Next == Personalization \/ FrictionBacklog

Spec == Init /\ [][Next]_vars

-----------------------------------------------------------------------------
(* The sleep_bars and summary requests on their own, over stores of two     *)
(* windows of BigWindow days; every session has a sleep latency.            *)

RangeHabits ==
    {h \in Habits : h.W = BigWindow /\ h.weShift = 0 /\ h.jitter = 0 /\ h.recent = 0}

RangeRow(h, date) ==
    LET r == HabitRow(h, date)
    IN  [wake_date |-> r.wake_date, bed_time |-> r.bed_time, wake_time |-> r.wake_time,
         duration_min |-> r.duration_min, quality |-> r.quality,
         latency_min |-> 5 * (1 + ((AnchorDate - date) % 4))]

RangeStore(h) ==
    Filter([i \in 1..(2 * h.W) |-> RangeRow(h, AnchorDate - 2 * h.W + i)],
           LAMBDA r : HabitLogged(h, r.wake_date))

FromInputs ==
    {Garbage, DateText(2025, 3, 1), DateText(2025, 6, 1), DateText(2025, 6, 29)}

RangeToInputs == {Garbage, DateText(2025, 6, 10), DateText(2025, 6, 28)}

BucketInputs == {None, Some("day"), Some("week"), Some("month")}

RangeInit ==
    /\ t_in = NoResult
    /\ t_out = NoResult
    /\ NoWrites
    /\ \E h \in RangeHabits : rows = RangeStore(h)
    /\ events = <<>>
    /\ clock = AnchorDate + 1
    /\ req = NoRequest
    /\ pc = "idle"
    /\ win = NoWindow
    /\ reads = 0
    /\ fetched = <<>>
    /\ resp = NoResult

SleepBars ==
    \/ \E from \in FromInputs, to \in RangeToInputs :
          SleepBarsBegin([from |-> from, to |-> to])
    \/ SleepBarsRespond

Summary ==
    \/ \E from \in FromInputs, to \in RangeToInputs, bucket \in BucketInputs :
          SummaryBegin([from |-> from, to |-> to, bucket |-> bucket])
    \/ SummaryRespond

RangeNext == SleepBars \/ Summary \/ RangeRead

SpecRange == RangeInit /\ [][RangeNext]_vars

-----------------------------------------------------------------------------
(* Personalization requests over stores of nights whose midpoints lie near  *)
(* midnight: two windows of SmallWindow days ending on AnchorDate, every    *)
(* night eight hours long.  A habit gives the midpoint of the weekday and   *)
(* weekend nights of each window in minutes after midnight (negative:       *)
(* before midnight), by how many minutes every other night is later, and    *)
(* which nights were not logged.                                            *)

NightHabits ==
    [ curWd : {-5, 5},
      curWe : {5, 25, 40},
      priWd : {-5, 5, 25, 40},
      priWe : {5, 40},
      jitter : {0, 10, 120},
      keep : {"all", "fewWeekendsCur", "fewWeekendsPrior", "fewWeekdaysCur",
              "noWeekdaysPrior", "noWeekendsPrior", "threeOfTenMissing", "lonePrior"} ]

NightRow(h, date) ==
    LET idx == AnchorDate - date
        weekend == Weekday(date) \in {5, 6}
        current == idx < SmallWindow
        mid == (IF current THEN (IF weekend THEN h.curWe ELSE h.curWd)
                ELSE (IF weekend THEN h.priWe ELSE h.priWd))
               + (IF idx % 2 = 1 THEN h.jitter ELSE 0)
        bed_time == (Hms(20, 0, 0) + mid * SecondsPerMinute) % SecondsPerDay
        wake_time == Hms(4, 0, 0) + mid * SecondsPerMinute
    IN  [wake_date |-> date, bed_time |-> bed_time, wake_time |-> wake_time,
         duration_min |-> compute_duration_min(date, bed_time, wake_time, Tokyo).mins,
         quality |-> Some(4)]

NightLogged(h, date) ==
    LET idx == AnchorDate - date
        weekend == Weekday(date) \in {5, 6}
        current == idx < SmallWindow
    IN  CASE h.keep = "fewWeekendsCur" -> ~(current /\ weekend /\ idx < 7)
          [] h.keep = "fewWeekendsPrior" -> ~(~current /\ weekend /\ idx < SmallWindow + 2)
          [] h.keep = "fewWeekdaysCur" -> ~(current /\ ~weekend /\ idx < 6)
          [] h.keep = "noWeekdaysPrior" -> current \/ weekend
          [] h.keep = "noWeekendsPrior" -> current \/ ~weekend
          [] h.keep = "threeOfTenMissing" -> idx \notin {1, 5, 9}
          [] h.keep = "lonePrior" -> current \/ idx = 2 * SmallWindow - 1
          [] OTHER -> TRUE

NightStore(h) ==
    Filter([i \in 1..(2 * SmallWindow) |-> NightRow(h, AnchorDate - 2 * SmallWindow + i)],
           LAMBDA r : NightLogged(h, r.wake_date))

NightWindowDays == {None, Some(10), Some(SmallWindow)}

NightTo == {None, Some(DateText(2025, 6, 28))}

NightInit ==
    /\ t_in = NoResult
    /\ t_out = NoResult
    /\ NoWrites
    /\ \E h \in NightHabits : rows = NightStore(h)
    /\ events = <<>>
    /\ clock = AnchorDate
    /\ req = NoRequest
    /\ pc = "idle"
    /\ win = NoWindow
    /\ reads = 0
    /\ fetched = <<>>
    /\ resp = NoResult

NightNext ==
    \/ \E wd \in NightWindowDays, to \in NightTo :
          PersonalizationBegin([window_days |-> wd, to |-> to])
    \/ PersonalizationRead
    \/ PersonalizationRespond

SpecNight == NightInit /\ [][NightNext]_vars

-----------------------------------------------------------------------------
(* A friction_backlog request with create_friction_telemetry calls served   *)
(* while it is in flight.  The table starts empty or with the default       *)
(* telemetry, and the server's date is the last date of that telemetry.     *)

TelemetryInputs ==
    [ form_time_ms : {-1, 6000},
      error_kind : {None, Some(<<" ">>), Some(<<" ", "Validation", " ">>)},
      retry_count : {-1, 2},
      immediate_edit : {FALSE},
      follow_up_failure : {FALSE, TRUE} ]

InsertTimes == {Hms(0, 0, 0), Hms(12, 0, 0)}

ConcurrentWindowDays == {0, 7}

ConcurrentTo == {None, Some(AnchorDate)}

ConcurrentInit ==
    /\ t_in = NoResult
    /\ t_out = NoResult
    /\ NoWrites
    /\ rows = <<>>
    /\ events \in {<<>>, TelemetryStore(DefaultTelemetry)}
    /\ clock = AnchorDate
    /\ req = NoRequest
    /\ pc = "idle"
    /\ win = NoWindow
    /\ reads = 0
    /\ fetched = <<>>
    /\ resp = NoResult

ConcurrentBacklog ==
    \/ \E wd \in ConcurrentWindowDays, to \in ConcurrentTo :
          FrictionBegin([window_days |-> wd, to |-> to])
    \/ FrictionRead
    \/ FrictionRespond

TelemetryInsert ==
    \E input \in TelemetryInputs, at \in InsertTimes : CreateFrictionTelemetry(input, at)

ConcurrentNext == ConcurrentBacklog \/ TelemetryInsert

SpecConcurrent == ConcurrentInit /\ [][ConcurrentNext]_vars

-----------------------------------------------------------------------------
(* Sequences of create_sleep, update_sleep and delete_sleep calls on an     *)
(* empty table, for a user in Asia/Tokyo.  The inputs are the three of the  *)
(* overlap test (an overnight session, one that overlaps its end, one that  *)
(* starts when it ends), sessions before and after them, and two inputs     *)
(* that are rejected on their own.                                          *)

SleepDay == DaysFromCivil(2025, 6, 21)

SleepInputOf(date, bed_time, wake_time, awakenings) ==
    [date |-> date, bed_time |-> bed_time, wake_time |-> wake_time,
     latency_min |-> 10, awakenings |-> awakenings, quality |-> 4]

SleepInputs ==
    { SleepInputOf(SleepDay, Hms(22, 0, 0), Hms(6, 0, 0), 0),
      SleepInputOf(SleepDay, Hms(5, 0, 0), Hms(7, 0, 0), 0),
      SleepInputOf(SleepDay, Hms(6, 0, 0), Hms(7, 0, 0), 0),
      SleepInputOf(SleepDay, Hms(7, 0, 0), Hms(8, 0, 0), 0),
      SleepInputOf(SleepDay - 1, Hms(20, 0, 0), Hms(22, 0, 0), 0),
      SleepInputOf(SleepDay + 1, Hms(23, 0, 0), Hms(6, 30, 0), 0),
      SleepInputOf(SleepDay, Hms(12, 0, 0), Hms(12, 0, 0), 0),
      SleepInputOf(SleepDay, Hms(13, 0, 0), Hms(14, 0, 0), 11) }

SleepIds == 1..MaxCalls

CrudInit ==
    /\ t_in = NoResult
    /\ t_out = NoResult
    /\ NoWrites
    /\ rows = <<>>
    /\ events = <<>>
    /\ clock = SleepDay + 1
    /\ req = NoRequest
    /\ pc = "idle"
    /\ win = NoWindow
    /\ reads = 0
    /\ fetched = <<>>
    /\ resp = NoResult

CrudNext ==
    \/ \E input \in SleepInputs : CreateSleep(input) /\ UNCHANGED sent
    \/ \E id \in SleepIds, input \in SleepInputs : UpdateSleep(id, input) /\ UNCHANGED sent
    \/ \E id \in SleepIds : DeleteSleep(id) /\ UNCHANGED sent

SpecCrud == CrudInit /\ [][CrudNext]_vars

-----------------------------------------------------------------------------
(* The flow of tests/auth_csrf.rs in any order: logins, logouts and         *)
(* mutating sleep requests of one client on an empty table.  A request      *)
(* carries the cookies of the client's cookie store, the cookies the client *)
(* copied out of its last login response, no cookies, a session cookie that *)
(* was not sealed by the server, or the copied session cookie alone.        *)

IssuedTokens == { <<97, 95, 98>>, <<90, 113>> }

HeaderTokens ==
    { None,
      Some(<<97, 95, 98>>),
      Some(<<90, 113>>),
      Some(<<97, 37, 53, 70, 98>>),
      Some(<<97, 95, 98, 37, 53>>) }

CookieHeaders ==
    { cookies, copied, NoCookies,
      [session |-> Some([user |-> "admin", sealed |-> FALSE]), csrf |-> copied.csrf],
      [session |-> copied.session, csrf |-> None] }

SecFetchSites == {None, Some("cross-site")}

Requests(method) ==
    { [method |-> method, cookie |-> c, x_csrf_token |-> h, sec_fetch_site |-> f] :
        c \in CookieHeaders, h \in HeaderTokens, f \in SecFetchSites }

Credentials ==
    { [email |-> AdminEmail, password |-> AdminPassword],
      [email |-> AdminEmail, password |-> <<"password124">>],
      [email |-> <<"eve@example.com">>, password |-> AdminPassword] }

AuthSleepInputs ==
    { SleepInputOf(SleepDay, Hms(22, 0, 0), Hms(6, 0, 0), 0),
      SleepInputOf(SleepDay, Hms(12, 0, 0), Hms(12, 0, 0), 0) }

AuthSleepIds == {1}

SleepOps == {"create_sleep", "update_sleep", "delete_sleep"}

AuthNext ==
    \/ \E creds \in Credentials, token \in IssuedTokens : PostLoginJson(creds, token)
    \/ \E request \in Requests("POST") : PostLogout(request)
    \/ \E input \in AuthSleepInputs, request \in Requests("POST") :
          SleepRequest("create_sleep", 0, input, request)
    \/ \E id \in AuthSleepIds, input \in AuthSleepInputs, request \in Requests("PUT") :
          SleepRequest("update_sleep", id, input, request)
    \/ \E id \in AuthSleepIds, request \in Requests("DELETE") :
          SleepRequest("delete_sleep", id, None, request)

SpecAuth == CrudInit /\ [][AuthNext]_vars

-----------------------------------------------------------------------------
(* The time resolver on its own: every call of compute_duration_min with    *)
(* arguments drawn from the sets below.                                     *)

TimeZones == {Tokyo, New_York, Apia}

WakeDates ==
    { NaiveDateMin,
      DaysFromCivil(2011, 12, 30), DaysFromCivil(2011, 12, 31),
      DaysFromCivil(2025, 3, 9), DaysFromCivil(2025, 6, 1),
      DaysFromCivil(2025, 11, 2) }

ClockTimes ==
    { Hms(0, 0, 0), Hms(1, 30, 0), Hms(2, 30, 0), Hms(7, 0, 0), Hms(7, 0, 30),
      Hms(20, 59, 0), Hms(21, 0, 0), Hms(21, 1, 0), Hms(23, 0, 0), Hms(23, 59, 59) }

TimeInit ==
    /\ t_in \in [wake_date : WakeDates, bed_time : ClockTimes,
                 wake_time : ClockTimes, tz : TimeZones]
    /\ t_out = NoResult
    /\ NoWrites
    /\ rows = <<>>
    /\ events = <<>>
    /\ clock = 0
    /\ req = NoRequest
    /\ pc = "idle"
    /\ win = NoWindow
    /\ reads = 0
    /\ fetched = <<>>
    /\ resp = NoResult

ComputeDuration ==
    /\ t_out = NoResult
    /\ t_out' = compute_duration_min(t_in.wake_date, t_in.bed_time, t_in.wake_time, t_in.tz)
    /\ UNCHANGED t_in
    /\ UNCHANGED <<trendVars, crudVars, authVars, exercise_events>>

TimeNext == ComputeDuration

SpecTime == TimeInit /\ [][TimeNext]_vars

-----------------------------------------------------------------------------
(* percentile_linear and median on their own: every call on a list of at    *)
(* most MaxLen whole-minute values, at the percentiles the code asks for    *)
(* and at the two ends of [0, 1].                                           *)

MaxLen == 3

PercentileValues == {3, 7, 323, 420}

\* The percentiles, in increasing order.
Percentiles == <<"0.0", "0.1", "0.25", "0.5", "0.75", "0.9", "1.0">>

ValueLists == UNION {[1..n -> PercentileValues] : n \in 0..MaxLen}

PercentileInit ==
    /\ t_in \in [fn : {"percentile_linear"}, values : ValueLists,
                 p : 1..Len(Percentiles)]
               \cup [fn : {"median"}, values : ValueLists, p : {4}]
    /\ t_out = NoResult
    /\ NoWrites
    /\ rows = <<>>
    /\ events = <<>>
    /\ clock = 0
    /\ req = NoRequest
    /\ pc = "idle"
    /\ win = NoWindow
    /\ reads = 0
    /\ fetched = <<>>
    /\ resp = NoResult

PercentileLinear ==
    /\ t_in.fn = "percentile_linear"
    /\ t_out = NoResult
    /\ t_out' = percentile_linear_f64(t_in.values, F64Literal(Percentiles[t_in.p]))
    /\ UNCHANGED t_in
    /\ UNCHANGED <<trendVars, crudVars, authVars, exercise_events>>

Median ==
    /\ t_in.fn = "median"
    /\ t_out = NoResult
    /\ t_out' = median_f64(t_in.values)
    /\ UNCHANGED t_in
    /\ UNCHANGED <<trendVars, crudVars, authVars, exercise_events>>

PercentileNext == PercentileLinear \/ Median

SpecPercentile == PercentileInit /\ [][PercentileNext]_vars

-----------------------------------------------------------------------------
(* The clock-minute functions on their own.  The arguments are clock        *)
(* minutes in [0, 1440), whole or half (a midpoint of a whole-minute        *)
(* duration), in hundredths of a minute.                                    *)

ClockMinutes ==
    {0, 5, 10, 15, 20, 355, 360, 715, 720, 725, 1075, 1080, 1425, 1430, 1435, 1439}

ClockCenti == {m * Centi + h : m \in ClockMinutes, h \in {0, Centi \div 2}}

BandThresholds == {5, 15, 60, 90}

ClockInit ==
    /\ t_in \in [fn : {"circular_minutes_diff", "circular_signed_minutes_delta"},
                 a : ClockCenti, b : ClockCenti, threshold_min : {0}]
               \cup [fn : {"within_clock_minute_band"}, a : ClockCenti, b : ClockCenti,
                     threshold_min : BandThresholds]
    /\ t_out = NoResult
    /\ NoWrites
    /\ rows = <<>>
    /\ events = <<>>
    /\ clock = 0
    /\ req = NoRequest
    /\ pc = "idle"
    /\ win = NoWindow
    /\ reads = 0
    /\ fetched = <<>>
    /\ resp = NoResult

Returned(x) == [kind |-> "ok", v |-> x]

CircularMinutesDiff ==
    /\ t_in.fn = "circular_minutes_diff"
    /\ t_out = NoResult
    /\ t_out' = Returned(circular_minutes_diff(t_in.a, t_in.b))
    /\ UNCHANGED t_in
    /\ UNCHANGED <<trendVars, crudVars, authVars, exercise_events>>

CircularSignedMinutesDelta ==
    /\ t_in.fn = "circular_signed_minutes_delta"
    /\ t_out = NoResult
    /\ t_out' = Returned(circular_signed_minutes_delta(t_in.a, t_in.b))
    /\ UNCHANGED t_in
    /\ UNCHANGED <<trendVars, crudVars, authVars, exercise_events>>

WithinClockMinuteBand ==
    /\ t_in.fn = "within_clock_minute_band"
    /\ t_out = NoResult
    /\ t_out' = Returned(within_clock_minute_band(t_in.a, t_in.b,
                                                  t_in.threshold_min * Centi))
    /\ UNCHANGED t_in
    /\ UNCHANGED <<trendVars, crudVars, authVars, exercise_events>>

ClockNext == CircularMinutesDiff \/ CircularSignedMinutesDelta \/ WithinClockMinuteBand

SpecClock == ClockInit /\ [][ClockNext]_vars

-----------------------------------------------------------------------------
(* create_exercise calls on an empty exercise_events table, with listings   *)
(* of the table between them.                                               *)

ExerciseDates == {AnchorDate, AnchorDate + 1}

ExerciseInputs ==
    [ date : ExerciseDates,
      intensity : {"none", "light", "hard"},
      start_time : {None},
      duration_min : {None, Some(45)} ]
        \cup [ date : ExerciseDates,
               intensity : {"light"},
               start_time : {Some(Hms(18, 30, 0))},
               duration_min : {None, Some(0)} ]

ExerciseNext ==
    \/ \E input \in ExerciseInputs : CreateExercise(input)
    \/ \E from \in ExerciseDates, to \in ExerciseDates \cup {AnchorDate + 2} :
          ListExerciseIntensity(from, to)

SpecExercise == CrudInit /\ [][ExerciseNext]_vars

-----------------------------------------------------------------------------
(* to_day_sample on its own: every call on a daily row with a positive      *)
(* duration, with bed and wake times on either side of each other, in the   *)
(* same minute and at both ends of the day.                                 *)

SampleTimes ==
    { Hms(0, 0, 0), Hms(0, 0, 59), Hms(0, 5, 0), Hms(7, 0, 10), Hms(7, 0, 30),
      Hms(12, 0, 0), Hms(23, 55, 0), Hms(23, 59, 59) }

SampleDurations == {1, 10, 481, 1439, 1440, 2881}

SampleInit ==
    /\ t_in \in [wake_date : {AnchorDate, AnchorDate + 1}, bed_time : SampleTimes,
                 wake_time : SampleTimes, duration_min : SampleDurations,
                 quality : {None, Some(4)}]
    /\ t_out = NoResult
    /\ NoWrites
    /\ rows = <<>>
    /\ events = <<>>
    /\ clock = 0
    /\ req = NoRequest
    /\ pc = "idle"
    /\ win = NoWindow
    /\ reads = 0
    /\ fetched = <<>>
    /\ resp = NoResult

ToDaySample ==
    /\ t_out = NoResult
    /\ t_out' = Returned(to_day_sample(t_in))
    /\ UNCHANGED t_in
    /\ UNCHANGED <<trendVars, crudVars, authVars, exercise_events>>

SampleNext == ToDaySample

SpecSample == SampleInit /\ [][SampleNext]_vars

-----------------------------------------------------------------------------
(* Claims about the time resolver (checked under SpecTime)                  *)

TimeDone == t_out # NoResult

BedNdt ==
    Ndt(IF t_in.bed_time > t_in.wake_time THEN t_in.wake_date - 1 ELSE t_in.wake_date,
        t_in.bed_time)
WakeNdt == Ndt(t_in.wake_date, t_in.wake_time)

\* The stretch of local wall-clock time that the k-th transition of tz makes
\* non-existent (a gap) or repeats (an overlap): from DiscFrom up to, not
\* including, DiscTo.
DiscFrom(tz, k) ==
    LET before == PeriodOffset(tz, k - 1)
        after == PeriodOffset(tz, k)
    IN  NdtPlus(tz.trans[k].at, IF before < after THEN before ELSE after)
DiscTo(tz, k) ==
    LET before == PeriodOffset(tz, k - 1)
        after == PeriodOffset(tz, k)
    IN  NdtPlus(tz.trans[k].at, IF before < after THEN after ELSE before)

\* No DST transition between bed and wake: every transition of the zone has
\* both local times on the same side of its gap or overlap.
NoTransitionBetween ==
    \A k \in 1..Len(t_in.tz.trans) :
        \/ NdtLt(WakeNdt, DiscFrom(t_in.tz, k))
        \/ NdtLe(DiscTo(t_in.tz, k), BedNdt)

\* wake_time - bed_time, and 24h - (bed_time - wake_time), in seconds.
SameDaySeconds == t_in.wake_time - t_in.bed_time
CrossingSeconds == SecondsPerDay - (t_in.bed_time - t_in.wake_time)

\* C2 (as claimed): in America/New_York on wake date 2025-11-02, bed 01:30 and
\* wake 01:30 (both in the repeated hour) give Ok(60).
C2_FallBackSameTimesYield60 ==
    (/\ TimeDone
     /\ t_in.tz = New_York
     /\ t_in.wake_date = DaysFromCivil(2025, 11, 2)
     /\ t_in.bed_time = Hms(1, 30, 0)
     /\ t_in.wake_time = Hms(1, 30, 0))
    => (t_out.kind = "ok" /\ t_out.mins = 60)

\* C3 (as claimed): with no DST transition between bed and wake the call
\* returns wake_time - bed_time in minutes when bed_time < wake_time, and
\* 1440 - (bed_time - wake_time) minutes when bed_time > wake_time.
C3_Original ==
    (TimeDone /\ NoTransitionBetween) =>
        /\ t_in.bed_time < t_in.wake_time =>
              (t_out.kind = "ok" /\ t_out.mins = num_minutes(SameDaySeconds))
        /\ t_in.bed_time > t_in.wake_time =>
              (t_out.kind = "ok" /\ t_out.mins = num_minutes(CrossingSeconds))

\* C3 (amended): with no DST transition between bed and wake, the call returns
\* the whole minutes of wake_time - bed_time when bed_time < wake_time by at
\* least one minute; when bed_time > wake_time and the wake date has a
\* predecessor it returns the whole minutes of 24h - (bed_time - wake_time),
\* provided that is at least one minute.
C3_DurationWithoutTransition ==
    (TimeDone /\ NoTransitionBetween) =>
        /\ (t_in.bed_time < t_in.wake_time /\ SameDaySeconds >= SecondsPerMinute) =>
              (t_out.kind = "ok" /\ t_out.mins = SameDaySeconds \div SecondsPerMinute)
        /\ (/\ t_in.bed_time > t_in.wake_time
            /\ t_in.wake_date # NaiveDateMin
            /\ CrossingSeconds >= SecondsPerMinute) =>
              (t_out.kind = "ok" /\ t_out.mins = CrossingSeconds \div SecondsPerMinute)

\* C3 witness: 23:00 to 07:00 in Asia/Tokyo was computed as 480 minutes, and a
\* same-day session was computed too.
C3_Witness ==
    /\ TimeDone
    /\ t_in.tz = Tokyo
    /\ t_in.bed_time = Hms(23, 0, 0)
    /\ t_in.wake_time = Hms(7, 0, 0)
    /\ t_in.wake_date = DaysFromCivil(2025, 6, 1)
    /\ t_out.kind = "ok"
    /\ t_out.mins = 480

FirstValidMinute(tz, ndt) ==
    LET ks == { k \in 1..(2 * MAX_DST_GAP_MINUTES) :
                  from_local_datetime(tz, NdtPlus(ndt, k * SecondsPerMinute)) # {} }
    IN  IF ks = {} THEN 0 ELSE CHOOSE k \in ks : \A j \in ks : k <= j

\* C5 (as claimed): a local time in a gap whose first valid minute lies k
\* minutes later is resolved to that minute's instant for every
\* k <= MAX_DST_GAP_MINUTES, and read as UTC only when k is larger.
C5_GapBridgedUpToBound ==
    (TimeDone /\ from_local_datetime(t_in.tz, WakeNdt) = {}) =>
        LET k == FirstValidMinute(t_in.tz, WakeNdt)
            r == resolve_local(t_in.tz, WakeNdt)
        IN  IF k >= 1 /\ k <= MAX_DST_GAP_MINUTES
            THEN /\ r.how = "gap"
                 /\ r.instant = Earliest(from_local_datetime(t_in.tz,
                                    NdtPlus(WakeNdt, k * SecondsPerMinute)))
            ELSE r.how = "fallback" /\ r.instant = WakeNdt

-----------------------------------------------------------------------------
(* Claims about the analytics requests (checked under Spec)                 *)

PersonalizationDone ==
    pc = "done" /\ req.endpoint = "personalization" /\ resp.kind = "ok"

Statuses == {"recommended", "suppressed"}

\* The rows of the read that fall in the prior window.
PriorRowCount ==
    Cardinality({ i \in 1..Len(fetched) :
                    /\ fetched[i].wake_date >= win.prior_from
                    /\ fetched[i].wake_date <= win.prior_to })

\* C1 (as claimed): in a personalization response each of the five
\* recommendations has no suppression reasons exactly when its status is
\* recommended, so every suppressed recommendation carries a reason.
C1_ReasonsEmptyIffRecommended ==
    PersonalizationDone =>
        \A i \in 1..5 :
            (resp.recommendations[i].suppression_reasons = <<>>)
                <=> (resp.recommendations[i].status = "recommended")

\* C1, the part of the claim that holds: a recommended recommendation has no
\* reasons, and the duration, day-type, variability and quality
\* recommendations have a reason whenever they are suppressed.
C1_ReasonsExceptSocial ==
    PersonalizationDone =>
        \A i \in 1..5 :
            /\ resp.recommendations[i].status = "recommended"
                   => resp.recommendations[i].suppression_reasons = <<>>
            /\ (i # 3 /\ resp.recommendations[i].status = "suppressed")
                   => resp.recommendations[i].suppression_reasons # <<>>

\* The window_days a request asks for (personalization defaults to 28).
WindowDaysOfRequest ==
    IF req.endpoint = "friction_backlog" THEN req.window_days
    ELSE IF req.window_days.some THEN req.window_days.v ELSE 28

\* The request's `to` is absent, a date already, or a text that parses.
ToOfRequestParses ==
    \/ req.endpoint = "friction_backlog"
    \/ ~req.to.some
    \/ parse_date_field(req.to.v, "to").kind = "ok"

AnalyticsStarted ==
    pc # "idle" /\ req.endpoint \in {"personalization", "friction_backlog"}

WindowsAskedFor ==
    /\ AnalyticsStarted
    /\ WindowDaysOfRequest >= 1 /\ WindowDaysOfRequest <= 365
    /\ ToOfRequestParses

\* C6 (as claimed): for every as_of date and every window_days in [1,365]
\* the handler computes the two windows.
C6_WindowsForEveryDate == WindowsAskedFor => win.set

\* The day number of the request's as_of date, once its `to` is known to parse.
AsOfOfRequest ==
    IF ~req.to.some THEN clock
    ELSE IF req.endpoint = "friction_backlog" THEN req.to.v
    ELSE parse_date_field(req.to.v, "to").date

\* C6: whenever personalization or friction_backlog has computed its windows,
\* the current window is [as_of - (window_days - 1), as_of], both windows hold
\* exactly window_days days, they are disjoint and the prior one ends the day
\* before the current one starts (2025-06-28 with 7 days gives
\* [2025-06-22, 2025-06-28] and [2025-06-15, 2025-06-21]); the windows of the
\* response are these.  The windows are computed for every as_of that has
\* 2 * window_days - 1 days before it in the calendar; otherwise the request
\* is rejected with "invalid date range".
C6_WindowsContiguous ==
    /\ win.set =>
         /\ win.as_of = AsOfOfRequest
         /\ win.window_days >= 1 /\ win.window_days <= 365
         /\ win.current_from = win.as_of - (win.window_days - 1)
         /\ win.as_of - win.current_from + 1 = win.window_days
         /\ win.prior_to - win.prior_from + 1 = win.window_days
         /\ win.prior_to < win.current_from
         /\ win.prior_to + 1 = win.current_from
         /\ (win.as_of = DaysFromCivil(2025, 6, 28) /\ win.window_days = 7) =>
                /\ win.current_from = DaysFromCivil(2025, 6, 22)
                /\ win.prior_from = DaysFromCivil(2025, 6, 15)
                /\ win.prior_to = DaysFromCivil(2025, 6, 21)
         /\ (pc = "done" /\ resp.kind = "ok") =>
                /\ resp.current_window.from = win.current_from
                /\ resp.current_window.to = win.as_of
                /\ resp.prior_window.from = win.prior_from
                /\ resp.prior_window.to = win.prior_to
    /\ (WindowsAskedFor /\ ~win.set) =>
         /\ AsOfOfRequest - (2 * WindowDaysOfRequest - 1) < NaiveDateMin
         /\ pc = "done"
         /\ resp = InvalidInput("invalid date range")

\* C6 witness: friction_backlog answered the request for 7 days up to
\* 2025-06-28 with the prior window starting on 2025-06-15.
C6_Witness ==
    /\ pc = "done" /\ resp.kind = "ok"
    /\ req.endpoint = "friction_backlog"
    /\ win.as_of = DaysFromCivil(2025, 6, 28) /\ win.window_days = 7
    /\ resp.prior_window.from = DaysFromCivil(2025, 6, 15)

\* C7: a request whose window_days is outside [1,365], and a personalization
\* request whose `to` does not parse, ends with InvalidInput and nothing else,
\* without a read having been issued; no rejected request has read anything.
C7_RejectedBeforeAnyRead ==
    /\ (AnalyticsStarted /\ ~(WindowDaysOfRequest >= 1 /\ WindowDaysOfRequest <= 365)) =>
          /\ pc = "done"
          /\ resp = InvalidInput("window_days must be between 1 and 365")
          /\ reads = 0 /\ fetched = <<>> /\ ~win.set
    /\ (AnalyticsStarted /\ ~ToOfRequestParses) =>
          /\ pc = "done"
          /\ resp.kind = "err" /\ resp.err = "InvalidInput"
          /\ DOMAIN resp = {"kind", "err", "msg"}
          /\ reads = 0 /\ fetched = <<>> /\ ~win.set
    /\ (pc = "done" /\ resp.kind = "err") =>
          /\ resp.err = "InvalidInput"
          /\ DOMAIN resp = {"kind", "err", "msg"}
          /\ reads = 0 /\ fetched = <<>>
    /\ reads > 0 => WindowsAskedFor

\* C7 witness: personalization was asked for zero days with a `to` that
\* parses, and was rejected.
C7_Witness ==
    /\ pc = "done"
    /\ req.endpoint = "personalization"
    /\ req.window_days = Some(0)
    /\ req.to = Some(DateText(2025, 6, 28))
    /\ resp.kind = "err"
    /\ reads = 0

\* The conditions under which each recommendation is recommended, read off
\* the metrics of the response.
RecommendedWhen(i) ==
    LET m == resp.metrics
    IN  CASE i = 1 ->
               /\ m.duration_baseline.sample_days >= 60
               /\ PriorRowCount >= 60
               /\ m.duration_baseline.recent_out_of_range_incidence_pct.some
               /\ m.duration_baseline.recent_out_of_range_incidence_pct.v.num
                      >= 5 * m.duration_baseline.recent_out_of_range_incidence_pct.v.den
          [] i = 2 ->
               /\ m.day_type_timing_baseline.eligible
               /\ ~m.day_type_timing_baseline.recent_14_day_diverges_from_baseline
          [] i = 3 ->
               /\ m.social_jetlag.eligible
               /\ m.social_jetlag.sustained_two_windows
          [] i = 4 ->
               /\ m.schedule_variability.eligible
               /\ m.schedule_variability.sustained_two_windows
               /\ ~m.schedule_variability.high_data_gap
          [] OTHER -> m.quality_factor_ranking.eligible

\* C8: in a personalization response a recommendation is recommended only if
\* its metric is eligible and its trigger holds (duration: at least 60 prior
\* samples and an out-of-range incidence of at least 5%; day-type: eligible
\* and no recent divergence; social jetlag: eligible and sustained;
\* variability: eligible, sustained and no high data gap; quality: eligible),
\* and is suppressed in every other case.
C8_RecommendedOnlyIfEligibleAndTriggered ==
    PersonalizationDone =>
        \A i \in 1..5 :
            /\ resp.recommendations[i].status \in Statuses
            /\ resp.recommendations[i].status = "recommended" <=> RecommendedWhen(i)

\* C8 witness: a response that recommends the day-type prefill and suppresses
\* the social jetlag insight although the shift is sustained.
C8_Witness ==
    /\ PersonalizationDone
    /\ resp.recommendations[2].status = "recommended"
    /\ resp.recommendations[3].status = "suppressed"
    /\ resp.metrics.social_jetlag.sustained_two_windows
    /\ ~resp.metrics.social_jetlag.eligible

\* C9 (as claimed): every suppressed recommendation has confidence low.
C9_SuppressedHasLowConfidence ==
    PersonalizationDone =>
        \A i \in 1..5 :
            resp.recommendations[i].status = "suppressed"
                => resp.recommendations[i].confidence = "low"

\* C10: when the read holds fewer than 60 rows of the prior window, the
\* duration metric is not eligible and the duration recommendation is
\* suppressed with the reason "needs at least 60 baseline sessions in prior
\* window" among its reasons.
C10_FewPriorSamplesSuppressDuration ==
    (PersonalizationDone /\ PriorRowCount < 60) =>
        /\ resp.metrics.duration_baseline.eligible = FALSE
        /\ resp.recommendations[1].action_key = "personal_duration_warning_tuning"
        /\ resp.recommendations[1].status = "suppressed"
        /\ \E k \in 1..Len(resp.recommendations[1].suppression_reasons) :
              resp.recommendations[1].suppression_reasons[k]
                  = "needs at least 60 baseline sessions in prior window"

\* C10 witness: a response computed from 59 prior rows and a full current
\* window of 60 rows.
C10_Witness ==
    /\ PersonalizationDone
    /\ PriorRowCount = 59
    /\ Len(fetched) - PriorRowCount = 60
    /\ resp.recommendations[1].status = "suppressed"


-----------------------------------------------------------------------------
(* Claims about the sleep_bars and summary requests (checked under          *)
(* SpecRange)                                                               *)

RangeRequested == req.endpoint \in {"sleep_bars", "summary"}

\* The span of the request's range in days, when both dates parse.
RangeSpanDays ==
    parse_date_field(req.to, "to").date - parse_date_field(req.from, "from").date + 1

RangeParses ==
    /\ parse_date_field(req.from, "from").kind = "ok"
    /\ parse_date_field(req.to, "to").kind = "ok"

RangeInvalid == ~RangeParses \/ RangeSpanDays < 1 \/ RangeSpanDays > 62

RangeRejected ==
    /\ pc = "done"
    /\ resp.kind = "err" /\ resp.err = "InvalidInput"
    /\ reads = 0

\* C11: a bars or summary request whose range is invalid (a date that does
\* not parse, to before from, or more than 62 days) never reads rows and ends
\* rejected with InvalidInput.
C11_InvalidRangeRejected ==
    (RangeRequested /\ RangeInvalid) => RangeRejected

\* C11, without the 62 days: a request with a date that does not parse or with
\* to before from never reads rows and ends rejected with InvalidInput.
C11_UnparsableOrReversedRejected ==
    (RangeRequested /\ (~RangeParses \/ RangeSpanDays < 1)) => RangeRejected


-----------------------------------------------------------------------------
(* Claims about friction_backlog responses (checked under Spec)             *)

FrictionAnswered ==
    /\ req.endpoint = "friction_backlog"
    /\ pc = "done"
    /\ resp.kind = "ok"

Estimate(i) == resp.proposals[i].estimated_minutes_saved_per_week

\* C12: in a friction_backlog response the estimates never increase along
\* the list and the ranks are 1, 2, ..., n in list order.
C12_SortedAndRanked ==
    FrictionAnswered =>
        /\ \A i, j \in 1..Len(resp.proposals) : i < j => RatGe(Estimate(i), Estimate(j))
        /\ \A i \in 1..Len(resp.proposals) : resp.proposals[i].rank = i

\* C12 witness: a response of two proposals with different estimates whose
\* first proposal is for the kind the read listed second.
C12_Witness ==
    /\ FrictionAnswered
    /\ Len(resp.proposals) = 2
    /\ ~RatGe(Estimate(2), Estimate(1))
    /\ resp.proposals[1].action_key = action_key_of(fetched[3][2].error_kind)
    /\ resp.proposals[1].rank = 1 /\ resp.proposals[2].rank = 2

\* The confidence the claim gives a proposal of the response.
ClaimedConfidence(p) ==
    LET e == p.observed_evidence
        both == e.current_occurrences > 0 /\ e.prior_occurrences > 0
        enough == resp.current_window.submit_count >= 30
    IN  IF enough /\ both /\ e.current_occurrences >= 12 /\ e.prior_occurrences >= 12
        THEN "high"
        ELSE IF enough /\ both /\ e.current_occurrences >= 4 /\ e.prior_occurrences >= 4
        THEN "medium"
        ELSE "low"

\* C13: every proposal's confidence is high, medium or low exactly by the
\* submits of the current window and the kind's occurrences in both windows.
C13_ConfidenceByThresholds ==
    FrictionAnswered =>
        \A i \in 1..Len(resp.proposals) :
            resp.proposals[i].confidence = ClaimedConfidence(resp.proposals[i])

Confidences == {resp.proposals[i].confidence : i \in 1..Len(resp.proposals)}

\* C13 witness: a response with the minimum sample that holds a low
\* proposal whose kind occurs 4 times or more in the current window but
\* fewer than 4 times in the prior one, next to a medium proposal.
C13_Witness ==
    /\ FrictionAnswered
    /\ resp.minimum_sample_met
    /\ \E i, j \in 1..Len(resp.proposals) :
          /\ resp.proposals[i].confidence = "low"
          /\ resp.proposals[i].observed_evidence.current_occurrences >= 4
          /\ resp.proposals[i].observed_evidence.prior_occurrences \in 1..3
          /\ resp.proposals[j].confidence = "medium"

\* C14: a proposal is auto-promoted exactly when its confidence is high or
\* medium; an auto-promoted proposal persists over two windows and its
\* response has the minimum sample.
C14_AutoPromotedIffAtLeastMedium ==
    FrictionAnswered =>
        \A i \in 1..Len(resp.proposals) :
            LET p == resp.proposals[i]
            IN  /\ p.auto_promoted <=> p.confidence \in {"high", "medium"}
                /\ p.auto_promoted => (p.persistence_two_windows /\ resp.minimum_sample_met)
                /\ p.confidence = "low" => ~p.auto_promoted

\* C14 witness: a response with a medium proposal that is auto-promoted and
\* a low one that is not.
C14_Witness ==
    /\ FrictionAnswered
    /\ \E i, j \in 1..Len(resp.proposals) :
          /\ resp.proposals[i].confidence = "medium" /\ resp.proposals[i].auto_promoted
          /\ resp.proposals[j].confidence = "low" /\ ~resp.proposals[j].auto_promoted

-----------------------------------------------------------------------------
(* Claims about friction_backlog with concurrent inserts (checked under     *)
(* SpecConcurrent)                                                          *)

\* The response friction_backlog gives when its four reads all see `store`.
FrictionAt(store) ==
    friction_backlog_response([k \in 1..4 |-> friction_read(store, win, k)], win)

\* The table as it was at some instant since the first insert of the run:
\* inserts only append, and `calls` bounds how many there were.
Snapshots ==
    {SubSeq(events, 1, n) : n \in (Len(events) - calls)..Len(events)}

\* C15: under any interleaving of telemetry inserts with a friction_backlog
\* request, the response equals the response of the same request run
\* atomically on the table at one instant, and no proposal reports more
\* current_occurrences than current_window.submit_count.
C15_SingleSnapshot ==
    FrictionAnswered =>
        /\ \E store \in Snapshots : resp = FrictionAt(store)
        /\ \A i \in 1..Len(resp.proposals) :
              resp.proposals[i].observed_evidence.current_occurrences
                  <= resp.current_window.submit_count

-----------------------------------------------------------------------------
(* Claims about percentile_linear and median (checked under SpecPercentile) *)

PercentileReturned == t_in.fn = "percentile_linear" /\ t_out # NoResult

SortedValues == SortSeq(t_in.values, LAMBDA x, y : x < y)

\* C16: percentile_linear of a non-empty list lies between the least and the
\* greatest value and is not below the percentile of the same list at any
\* smaller p; at 0.5 on a list of odd length it is median(values) and the
\* middle element of the sorted list; on the empty list it is None.
C16_MonotoneBoundedMedian ==
    PercentileReturned =>
        IF t_in.values = <<>> THEN t_out = None
        ELSE /\ t_out.some
             /\ F64Le(F64OfInt(SortedValues[1]), t_out.v)
             /\ F64Le(t_out.v, F64OfInt(SortedValues[Len(SortedValues)]))
             /\ \A q \in 1..(t_in.p - 1) :
                   F64Le(percentile_linear_f64(t_in.values, F64Literal(Percentiles[q])).v,
                         t_out.v)
             /\ (Percentiles[t_in.p] = "0.5" /\ Len(SortedValues) % 2 = 1) =>
                   /\ t_out = median_f64(t_in.values)
                   /\ t_out = Some(F64OfInt(SortedValues[(Len(SortedValues) + 1) \div 2]))

\* The part of C16 that does not depend on the interpolation: None on the
\* empty list, and on a list of odd length median(values) and
\* percentile_linear(values, 0.5) are the middle element of the sorted list.
C16_EmptyAndOddMedian ==
    t_out # NoResult =>
        IF t_in.values = <<>> THEN t_out = None
        ELSE (Percentiles[t_in.p] = "0.5" /\ Len(SortedValues) % 2 = 1) =>
                t_out = Some(F64OfInt(SortedValues[(Len(SortedValues) + 1) \div 2]))

-----------------------------------------------------------------------------
(* Claims about the clock-minute functions (checked under SpecClock)        *)

HalfDayCenti == DayCenti \div 2

DiffReturned == t_in.fn = "circular_minutes_diff" /\ t_out # NoResult

AcrossMidnight == t_in.a = (23 * 60 + 55) * Centi /\ t_in.b = 5 * Centi

\* C17: circular_minutes_diff(a, b) = circular_minutes_diff(b, a), the result
\* is in [0, 720] and is the shorter of the two ways round the clock; 23:55
\* against 00:05 gives 10, inside a band of 15 minutes and outside one of 5.
C17_SymmetricShorterWay ==
    DiffReturned =>
        /\ t_out.v = circular_minutes_diff(t_in.b, t_in.a)
        /\ t_out.v >= 0
        /\ t_out.v <= HalfDayCenti
        /\ \/ t_out.v = Abs(t_in.a - t_in.b)
           \/ t_out.v = DayCenti - Abs(t_in.a - t_in.b)
        /\ t_out.v <= Abs(t_in.a - t_in.b)
        /\ AcrossMidnight =>
              /\ t_out.v = 10 * Centi
              /\ within_clock_minute_band(t_in.a, t_in.b, 15 * Centi)
              /\ ~within_clock_minute_band(t_in.a, t_in.b, 5 * Centi)

\* C17 witness: the distance of 23:55 from 00:05 was computed.
C17_Witness == DiffReturned /\ AcrossMidnight /\ t_out.v = 10 * Centi

DeltaReturned == t_in.fn = "circular_signed_minutes_delta" /\ t_out # NoResult

DeltaCongruentAndAbsolute ==
    /\ (t_out.v - (t_in.a - t_in.b)) % DayCenti = 0
    /\ Abs(t_out.v) = circular_minutes_diff(t_in.a, t_in.b)

\* C18 as stated: circular_signed_minutes_delta(later, earlier) is in
\* (-720, 720], congruent to later - earlier modulo 1440, and its absolute
\* value is circular_minutes_diff(later, earlier).
C18_Original ==
    DeltaReturned =>
        /\ t_out.v > -HalfDayCenti
        /\ t_out.v <= HalfDayCenti
        /\ DeltaCongruentAndAbsolute

\* C18 amended: circular_signed_minutes_delta(later, earlier) is in
\* [-720, 720), congruent to later - earlier modulo 1440, and its absolute
\* value is circular_minutes_diff(later, earlier).
C18_DeltaInHalfOpenRange ==
    DeltaReturned =>
        /\ t_out.v >= -HalfDayCenti
        /\ t_out.v < HalfDayCenti
        /\ DeltaCongruentAndAbsolute

\* C18 witness: the two times are half a day apart and the delta is -720.
C18_Witness ==
    /\ DeltaReturned
    /\ Abs(t_in.a - t_in.b) = HalfDayCenti
    /\ t_out.v = -HalfDayCenti

-----------------------------------------------------------------------------
(* Claims about the windows of a personalization response (checked under    *)
(* Spec)                                                                    *)

\* The wake dates the store holds in [from, to].
LoggedDates(from, to) ==
    { rows[i].wake_date : i \in { j \in 1..Len(rows) :
                                    rows[j].wake_date >= from /\ rows[j].wake_date <= to } }

WindowAsClaimed(w) ==
    LET logged == Cardinality(LoggedDates(w.from, w.to))
        missing == resp.window_days - logged
    IN  /\ w.logged_days = logged
        /\ w.missing_days = IF missing > 0 THEN missing ELSE 0
        /\ w.missing_days_pct.num * resp.window_days
               = w.missing_days * 100 * w.missing_days_pct.den
        /\ w.missing_days >= 0
        /\ w.missing_days <= resp.window_days
        /\ w.missing_days_pct.num >= 0
        /\ w.missing_days_pct.num <= 100 * w.missing_days_pct.den
        /\ w.to - w.from + 1 = resp.window_days

\* C19: in each window of a personalization response logged_days is the
\* number of distinct wake dates of the samples in [from, to], missing_days
\* is max(0, window_days - logged_days) and missing_days_pct is
\* missing_days * 100 / window_days; so 0 <= missing_days <= window_days,
\* 0 <= missing_days_pct <= 100, and to - from + 1 = window_days.
C19_WindowStats ==
    PersonalizationDone =>
        /\ WindowAsClaimed(resp.current_window)
        /\ WindowAsClaimed(resp.prior_window)

\* C19 witness: a response whose current window misses some days but not
\* all, and whose prior window misses none.
C19_Witness ==
    /\ PersonalizationDone
    /\ resp.current_window.missing_days > 0
    /\ resp.current_window.logged_days > 0
    /\ resp.prior_window.missing_days = 0

-----------------------------------------------------------------------------
(* Claims about the stored sleep sessions (checked under SpecCrud)          *)

\* The closed interval of a session or an input: the bed datetime, on the
\* previous day when bed_time > wake_time, and the wake datetime.
IntervalOf(s) ==
    [from |-> Ndt(IF s.bed_time > s.wake_time THEN s.date - 1 ELSE s.date, s.bed_time),
     to |-> Ndt(s.date, s.wake_time)]

\* Two closed intervals share a point; touching ends count.
Intersect(x, y) == NdtLe(x.from, y.to) /\ NdtLe(y.from, x.to)

NoTwoIntersect ==
    \A i, j \in 1..Len(sessions) :
        i # j => ~Intersect(IntervalOf(sessions[i]), IntervalOf(sessions[j]))

\* The stored sessions a create or update call is tested against: all of
\* them for create_sleep, all but the session updated for update_sleep.
OthersOf(call) ==
    { i \in 1..Len(sessions) : call.op = "update_sleep" => sessions[i].id # call.id }

HitsAnother(call) ==
    \E i \in OthersOf(call) : Intersect(IntervalOf(call.input), IntervalOf(sessions[i]))

\* The input passes every test but the overlap test.
AcceptableAlone(input) == checked_sleep_input(<<>>, input, user_tz, None).kind = "ok"

\* One create_sleep or update_sleep call, with what the claim says of it.
SleepWriteAsClaimed ==
    (calls' = calls + 1 /\ out'.op \in {"create_sleep", "update_sleep"}) =>
        /\ HitsAnother(out') =>
              /\ out'.result.kind = "err"
              /\ out'.result.err = "InvalidInput"
              /\ sessions' = sessions
        /\ (out'.op = "update_sleep" /\ ~HitsAnother(out') /\ AcceptableAlone(out'.input)
                /\ \E i \in 1..Len(sessions) : sessions[i].id = out'.id) =>
              /\ out'.result.kind = "ok"
              /\ \E i \in 1..Len(sessions') :
                    /\ sessions'[i].id = out'.id
                    /\ IntervalOf(sessions'[i]) = IntervalOf(out'.input)

\* C20: after any sequence of create_sleep, update_sleep and delete_sleep
\* calls no two stored sessions have intersecting closed intervals; a create
\* or update whose interval overlaps or touches another stored session is
\* rejected with InvalidInput and leaves the store unchanged; an update that
\* overlaps only the session it updates is not rejected.
C20_NoStoredSessionsIntersect ==
    /\ []NoTwoIntersect
    /\ [][SleepWriteAsClaimed]_vars

\* C20 witness: with a session stored, a create or update that starts at the
\* second at which that session ends has been rejected.
C20_Witness ==
    /\ out # NoResult
    /\ out.op \in {"create_sleep", "update_sleep"}
    /\ out.result.kind = "err"
    /\ \E i \in OthersOf(out) :
          IntervalOf(out.input).from = IntervalOf(sessions[i]).to

\* The id of the last call is the id of no stored session.
IdNotStored(id) == \A i \in 1..Len(sessions) : sessions[i].id # id

\* One update_sleep or delete_sleep call on an id that is not stored.
MissingIdStep ==
    /\ calls' = calls + 1
    /\ out'.op \in {"update_sleep", "delete_sleep"}
    /\ IdNotStored(out'.id)

\* One update_sleep call that writes the values the session already has.
UnchangedUpdateStep ==
    /\ calls' = calls + 1
    /\ out'.op = "update_sleep"
    /\ \E i \in 1..Len(sessions) :
          sessions[i] = session_row(out'.id, out'.input, sessions[i].duration_min)

DeleteOfMissingAsClaimed ==
    out'.op = "delete_sleep" =>
        /\ out'.result = [kind |-> "ok", deleted |-> 0]
        /\ http_status(out'.op, out'.result) = 204

UpdateAnsweredNotFound ==
    /\ out'.result.kind = "err"
    /\ out'.result.err = "NotFound"
    /\ http_status(out'.op, out'.result) = 404

UnchangedUpdateAsClaimed ==
    UnchangedUpdateStep => (out'.result.kind = "ok" /\ sessions' = sessions)

MissingIdAsClaimed ==
    MissingIdStep =>
        /\ sessions' = sessions
        /\ DeleteOfMissingAsClaimed
        /\ out'.op = "update_sleep" => UpdateAnsweredNotFound

MissingIdWithAcceptedInput ==
    MissingIdStep =>
        /\ sessions' = sessions
        /\ DeleteOfMissingAsClaimed
        /\ (out'.op = "update_sleep" /\ AcceptableAlone(out'.input) /\ ~HitsAnother(out'))
              => UpdateAnsweredNotFound

\* C21 as stated: a call on an id that is not stored leaves the store
\* unchanged; delete_sleep succeeds with 0 rows and 204, update_sleep returns
\* NotFound (404); an update of a stored id with unchanged values succeeds.
C21_MissingIdLeavesStore ==
    [][MissingIdAsClaimed /\ UnchangedUpdateAsClaimed]_vars

\* C21 amended: the same, with NotFound claimed only of an update whose
\* input passes validation and overlaps no stored session.
C21_MissingIdWithAcceptedInput ==
    [][MissingIdWithAcceptedInput /\ UnchangedUpdateAsClaimed]_vars

\* C21 witness: an update of an id that is not stored was answered NotFound
\* while another session is stored.
C21_Witness ==
    /\ out # NoResult
    /\ out.op = "update_sleep"
    /\ out.result.kind = "err"
    /\ out.result.err = "NotFound"
    /\ IdNotStored(out.id)
    /\ sessions # <<>>

-----------------------------------------------------------------------------
(* C22: the guards of the mutating sleep routes.                            *)

\* The request carries a session cookie the server issued.
HasValidSession(request) ==
    /\ request.cookie.session # None
    /\ request.cookie.session.v.sealed

\* The X-CSRF-Token header of the request, percent-decoded where it is a
\* percent-encoding (as it stands where it is none).
DecodedToken(request) ==
    LET decoded == percent_decode(request.x_csrf_token.v)
    IN  IF decoded # None THEN decoded.v ELSE request.x_csrf_token.v

TokenEqualsCookie(request) ==
    /\ request.x_csrf_token # None
    /\ request.cookie.csrf # None
    /\ DecodedToken(request) = request.cookie.csrf.v

\* The client's last login has been followed by a logout answered 204: the
\* cookie store was emptied, the copies of the cookies remain.
LoggedOut == copied.session # None /\ cookies.session = None

\* One step that answers a mutating sleep request.
SleepRequestStep ==
    /\ sent'.method \in {"POST", "PUT", "DELETE"}
    /\ out'.op \in SleepOps

SessionThenCsrfAsClaimed ==
    /\ sessions' # sessions => (HasValidSession(sent') /\ TokenEqualsCookie(sent'))
    /\ ~HasValidSession(sent') => answered(out') = 401
    /\ (HasValidSession(sent') /\ ~TokenEqualsCookie(sent')) => answered(out') = 403
    /\ answered(out') \in {401, 403} => sessions' = sessions

\* The request that was accepted before the logout, sent again after it.
SameRequestAfterLogout ==
    /\ LoggedOut
    /\ sent'.cookie = copied
    /\ TokenEqualsCookie(sent')

\* C22 as stated: a mutating sleep request changes the store only with a
\* valid session cookie and a header token equal to the CSRF cookie; it is
\* answered 401 without a valid session, 403 with a session and a missing or
\* mismatched token, and 401 when the same request is sent after logout; a
\* rejected request leaves the store unchanged.
C22_GuardedAndLoggedOut ==
    [][SleepRequestStep =>
          /\ SessionThenCsrfAsClaimed
          /\ SameRequestAfterLogout => answered(out') = 401]_vars

\* The part of C22 that does not speak of logout.
C22_SessionThenCsrf == [][SleepRequestStep => SessionThenCsrfAsClaimed]_vars

\* After a logout, a request sent from the client's cookie store carries no
\* session cookie and is answered 401.
C22_EmptiedStoreUnauthorized ==
    [][(SleepRequestStep /\ LoggedOut /\ sent'.cookie = cookies)
          => answered(out') = 401]_vars

-----------------------------------------------------------------------------
(* C23: the median of latencies by selection against the median by sorting  *)
(* (checked under SpecRange).                                               *)

SummaryAnswered ==
    /\ pc = "done"
    /\ req.endpoint = "summary"
    /\ resp.kind = "ok"

\* The latencies of the fetched rows that fall in the k-th bucket of the
\* response, in the order of the rows.
BucketLatencies(k) ==
    LET bucket == IF req.bucket.some THEN req.bucket.v ELSE "day"
        members == SelectSeq(fetched, LAMBDA r :
                       bucket_key(bucket, r.wake_date) = resp.latency_by_bucket[k].bucket)
    IN  [i \in 1..Len(members) |-> members[i].latency_min]

\* The f64 of a bucket's median: `*nth as f64`, or the sum of the two
\* selected values (exact for i32 values) halved.
MedianAsF64(m) ==
    IF m.den = 1 THEN F64OfInt(m.num)
    ELSE F64Mul(F64OfInt(m.num), F64Literal("0.5"))

SortedLatencies(k) == SortSeq(BucketLatencies(k), LAMBDA x, y : x < y)

BucketMedianAsClaimed(k) ==
    LET lats == BucketLatencies(k)
        sorted == SortedLatencies(k)
        n == Len(lats)
        m == resp.latency_by_bucket[k].median
    IN  /\ n > 0
        /\ Some(MedianAsF64(m)) = median_f64(lats)
        /\ n % 2 = 1 => (m.den = 1 /\ m.num = sorted[(n + 1) \div 2])
        /\ n % 2 = 0 => (m.den = 2 /\ m.num = sorted[n \div 2] + sorted[n \div 2 + 1])

\* C23: in every summary response the median of each bucket's latencies, got
\* by selection, is percentile_linear(latencies, 0.5): the middle element of
\* an odd count, the mean of the two middle elements of an even count.
C23_SelectedIsSortedMedian ==
    SummaryAnswered =>
        \A k \in 1..Len(resp.latency_by_bucket) : BucketMedianAsClaimed(k)

\* C23 witness: a response with a bucket of an even count whose two middle
\* latencies differ, and a bucket of an odd count with a repeated latency.
C23_Witness ==
    /\ SummaryAnswered
    /\ \E k \in 1..Len(resp.latency_by_bucket) :
          LET sorted == SortedLatencies(k)
              n == Len(sorted)
          IN  /\ n % 2 = 0
              /\ n >= 4
              /\ sorted[n \div 2] < sorted[n \div 2 + 1]
              /\ \E i \in 1..(n - 1) : sorted[i] = sorted[i + 1]
    /\ \E k \in 1..Len(resp.latency_by_bucket) :
          LET sorted == SortedLatencies(k)
              n == Len(sorted)
          IN  /\ n % 2 = 1
              /\ n >= 3
              /\ \E i \in 1..(n - 1) : sorted[i] = sorted[i + 1]

-----------------------------------------------------------------------------
(* Claims about the day-type and social jetlag metrics (checked under       *)
(* SpecNight)                                                               *)

\* The stored rows of a window that woke on a weekend (or on a weekday).
WindowRows(from, to, weekend) ==
    SelectSeq(rows, LAMBDA r : /\ r.wake_date >= from
                               /\ r.wake_date <= to
                               /\ (Weekday(r.wake_date) \in {5, 6}) = weekend)

\* The median of the midpoints of those rows.
MidpointMedian(from, to, weekend) ==
    median([i \in 1..Len(WindowRows(from, to, weekend)) |->
               to_day_sample(WindowRows(from, to, weekend)[i]).midpoint_clock_min])

\* The way round the clock from `earlier` to `later`, in [-12h, 12h).
SignedWayRound(later, earlier) ==
    CHOOSE d \in {later - earlier - DayCenti, later - earlier, later - earlier + DayCenti} :
        d >= -(DayCenti \div 2) /\ d < DayCenti \div 2

DeltaAsClaimed(delta, from, to) ==
    LET wd == MidpointMedian(from, to, FALSE)
        we == MidpointMedian(from, to, TRUE)
    IN  IF wd.some /\ we.some THEN delta = Some(SignedWayRound(we.v, wd.v))
        ELSE delta = None

AtLeastHalfHour(delta) == delta.some /\ (delta.v >= 30 * Centi \/ delta.v <= -30 * Centi)

\* C24: the social jetlag metric is eligible exactly when both windows hold
\* at least 4 weekend samples; each window's delta is the signed way round
\* the clock from the weekday midpoint median to the weekend midpoint median;
\* sustained_two_windows holds exactly when both deltas are at least 30
\* minutes in absolute value.
C24_SocialJetlag ==
    PersonalizationDone =>
        LET m == resp.metrics.social_jetlag
            cur == resp.current_window
            pri == resp.prior_window
        IN  /\ m.eligible <=> (/\ Len(WindowRows(cur.from, cur.to, TRUE)) >= 4
                               /\ Len(WindowRows(pri.from, pri.to, TRUE)) >= 4)
            /\ m.weekend_sample_days = Len(WindowRows(cur.from, cur.to, TRUE))
            /\ DeltaAsClaimed(m.current_delta_min, cur.from, cur.to)
            /\ DeltaAsClaimed(m.prior_delta_min, pri.from, pri.to)
            /\ m.sustained_two_windows
                   <=> (AtLeastHalfHour(m.current_delta_min) /\ AtLeastHalfHour(m.prior_delta_min))

\* C24 witness: an eligible response whose current weekday median is 23:55
\* and weekend median 00:05, a delta of +10 across midnight, not sustained.
C24_Witness ==
    /\ PersonalizationDone
    /\ resp.metrics.social_jetlag.eligible
    /\ MidpointMedian(resp.current_window.from, resp.current_window.to, FALSE)
           = Some((23 * 60 + 55) * Centi)
    /\ MidpointMedian(resp.current_window.from, resp.current_window.to, TRUE)
           = Some(5 * Centi)
    /\ resp.metrics.social_jetlag.current_delta_min = Some(10 * Centi)
    /\ ~resp.metrics.social_jetlag.sustained_two_windows

\* A sustained response with a delta of exactly 30 minutes in the current
\* window.
C24_SustainedAtThreshold ==
    /\ PersonalizationDone
    /\ resp.metrics.social_jetlag.sustained_two_windows
    /\ resp.metrics.social_jetlag.current_delta_min = Some(30 * Centi)

\* The shorter way round the clock between two clock values.
ShorterWayRound(a, b) ==
    LET d == IF a >= b THEN a - b ELSE b - a
    IN  IF d <= DayCenti - d THEN d ELSE DayCenti - d

\* The midpoint medians of the weekday (or weekend) nights of both windows
\* exist and are at most 30 minutes apart round the clock.
StableAsClaimed(weekend) ==
    LET cur == MidpointMedian(resp.current_window.from, resp.current_window.to, weekend)
        pri == MidpointMedian(resp.prior_window.from, resp.prior_window.to, weekend)
    IN  /\ cur.some
        /\ pri.some
        /\ ShorterWayRound(cur.v, pri.v) <= 30 * Centi

\* C25: the day-type timing metric is eligible exactly when the current
\* window has at least 8 weekday and 4 weekend samples and the weekday and
\* the weekend midpoint medians each differ by at most 30 minutes round the
\* clock between the windows; a window without weekday or without weekend
\* samples makes the metric not stable.
C25_DayTypeTiming ==
    PersonalizationDone =>
        LET m == resp.metrics.day_type_timing_baseline
            cur == resp.current_window
        IN  /\ m.midpoint_stable_across_windows
                   <=> (StableAsClaimed(FALSE) /\ StableAsClaimed(TRUE))
            /\ m.eligible <=> (/\ Len(WindowRows(cur.from, cur.to, FALSE)) >= 8
                               /\ Len(WindowRows(cur.from, cur.to, TRUE)) >= 4
                               /\ StableAsClaimed(FALSE)
                               /\ StableAsClaimed(TRUE))

\* C25 witness: an eligible response whose weekday midpoint median moved
\* from 23:55 in the prior window to 00:05 in the current one.
C25_Witness ==
    /\ PersonalizationDone
    /\ resp.metrics.day_type_timing_baseline.eligible
    /\ MidpointMedian(resp.prior_window.from, resp.prior_window.to, FALSE)
           = Some((23 * 60 + 55) * Centi)
    /\ MidpointMedian(resp.current_window.from, resp.current_window.to, FALSE)
           = Some(5 * Centi)

-----------------------------------------------------------------------------
(* C26: the data gap guardrail of the regularity recommendation (checked    *)
(* under SpecNight)                                                         *)

\* The days of the current window without a stored row.
CurrentMissingDays ==
    LET w == resp.current_window
        missing == resp.window_days - Cardinality(LoggedDates(w.from, w.to))
    IN  IF missing > 0 THEN missing ELSE 0

\* The stored rows of a window.
RowsOfWindow(w) ==
    SelectSeq(rows, LAMBDA r : r.wake_date >= w.from /\ r.wake_date <= w.to)

RegularityRecommendation ==
    CHOOSE r \in {resp.recommendations[i] : i \in 1..Len(resp.recommendations)} :
        r.action_key = "regularity_insight_priority"

GapReason == "data gaps exceed 30% of current window"

\* C26: high_data_gap is true exactly when more than 30% of the days of the
\* current window are missing; then regularity_insight_priority is
\* suppressed with the reason "data gaps exceed 30% of current window"; the
\* variability metric is eligible exactly when both windows hold at least 2
\* samples.
C26_DataGapGuardrail ==
    PersonalizationDone =>
        LET m == resp.metrics.schedule_variability
            r == RegularityRecommendation
        IN  /\ m.high_data_gap <=> CurrentMissingDays * 100 > 30 * resp.window_days
            /\ m.high_data_gap =>
                  /\ r.status = "suppressed"
                  /\ \E i \in 1..Len(r.suppression_reasons) : r.suppression_reasons[i] = GapReason
            /\ m.eligible <=> (/\ Len(RowsOfWindow(resp.current_window)) >= 2
                               /\ Len(RowsOfWindow(resp.prior_window)) >= 2)

\* C26 witness: a response with a data gap whose variability is eligible
\* and sustained in both windows, suppressed for the gap alone.
C26_Witness ==
    /\ PersonalizationDone
    /\ resp.metrics.schedule_variability.high_data_gap
    /\ resp.metrics.schedule_variability.eligible
    /\ resp.metrics.schedule_variability.sustained_two_windows
    /\ RegularityRecommendation.status = "suppressed"
    /\ RegularityRecommendation.suppression_reasons = <<GapReason>>

\* A response with exactly 30% of the days missing: no data gap, and the
\* recommendation is made.
C26_ExactlyThirtyPercent ==
    /\ PersonalizationDone
    /\ CurrentMissingDays * 100 = 30 * resp.window_days
    /\ ~resp.metrics.schedule_variability.high_data_gap
    /\ RegularityRecommendation.status = "recommended"

-----------------------------------------------------------------------------
(* C27: the ranked quality factors (checked under Spec)                     *)

\* The samples of the read that fall in a window.
SamplesOfWindow(w) ==
    LET samples == [i \in 1..Len(fetched) |-> to_day_sample(fetched[i])]
    IN  SelectSeq(samples, LAMBDA x : x.wake_date >= w.from /\ x.wake_date <= w.to)

\* The quality-tagged samples of a window that are favorable (or not) for a
\* factor, judged against the window's own midpoint median and duration
\* percentiles.
TaggedSamples(w, factor, favorable) ==
    LET samples == SamplesOfWindow(w)
        mid == median([i \in 1..Len(samples) |-> samples[i].midpoint_clock_min])
        durations == [i \in 1..Len(samples) |-> samples[i].duration_min]
        p10 == percentile_linear(durations, 10)
        p90 == percentile_linear(durations, 90)
    IN  SelectSeq(samples, LAMBDA x :
            x.quality.some /\ (is_favorable(x, mid, p10, p90, factor) = favorable))

EnoughOfBoth(w, factor) ==
    /\ Len(TaggedSamples(w, factor, TRUE)) >= 5
    /\ Len(TaggedSamples(w, factor, FALSE)) >= 5

SumOfQuality(samples) == SeqSum([i \in 1..Len(samples) |-> samples[i].quality.v])

\* The sign of the effect of a factor in a window: whether the mean quality
\* of the favorable samples is below that of the unfavorable ones (-1) or
\* not (1, as f64::signum has it for +0.0 and above).
EffectSignum(w, factor) ==
    LET fav == TaggedSamples(w, factor, TRUE)
        unfav == TaggedSamples(w, factor, FALSE)
    IN  IF SumOfQuality(fav) * Len(unfav) < SumOfQuality(unfav) * Len(fav) THEN -1 ELSE 1

FactorNames == {Factors[i] : i \in 1..Len(Factors)}

RankedAsClaimed ==
    LET ranked == resp.metrics.quality_factor_ranking.ranked_factors
    IN  /\ Len(ranked) <= 3
        /\ \A i, j \in 1..Len(ranked) : i # j => ranked[i].factor # ranked[j].factor
        /\ \A i \in 1..(Len(ranked) - 1) :
              ~AbsGreater(ranked[i + 1].effect, ranked[i].effect)
        /\ \A i \in 1..Len(ranked) :
              /\ ranked[i].factor \in FactorNames
              /\ EnoughOfBoth(resp.current_window, ranked[i].factor)
              /\ EnoughOfBoth(resp.prior_window, ranked[i].factor)

QualityBaseAsClaimed ==
    LET tagged == SelectSeq(SamplesOfWindow(resp.current_window), LAMBDA x : x.quality.some)
        ranked == resp.metrics.quality_factor_ranking.ranked_factors
    IN  /\ Len(tagged) >= 40
        /\ Cardinality({tagged[i].quality.v : i \in 1..Len(tagged)}) >= 3
        /\ {ranked[i].factor : i \in 1..Len(ranked)} = FactorNames

\* C27: at most three ranked factors with distinct names, ordered by
\* non-increasing absolute effect, each with at least 5 favorable and 5
\* unfavorable quality-tagged samples in both windows; the metric is eligible
\* only with at least 40 quality-tagged current samples, 3 distinct quality
\* values and all three factors listed with the same effect sign in both
\* windows (the sign f64::signum gives).
C27_RankedFactors ==
    PersonalizationDone =>
        /\ RankedAsClaimed
        /\ resp.metrics.quality_factor_ranking.eligible =>
              /\ QualityBaseAsClaimed
              /\ \A f \in FactorNames :
                    EffectSignum(resp.current_window, f) = EffectSignum(resp.prior_window, f)

\* C27 witness: an eligible response that ranks all three factors, the first
\* with a greater absolute effect than the last.
C27_Witness ==
    /\ PersonalizationDone
    /\ resp.metrics.quality_factor_ranking.eligible
    /\ Len(resp.metrics.quality_factor_ranking.ranked_factors) = 3
    /\ AbsGreater(resp.metrics.quality_factor_ranking.ranked_factors[1].effect,
                  resp.metrics.quality_factor_ranking.ranked_factors[3].effect)

-----------------------------------------------------------------------------
(* Claims about the proposals of a friction_backlog response (Spec)         *)

\* The error kinds of the telemetry recorded on the dates from..to.
KindsOfDays(from, to) ==
    { events[i].error_kind.v : i \in { j \in 1..Len(events) :
          /\ events[j].error_kind.some
          /\ from <= events[j].recorded_at[1]
          /\ events[j].recorded_at[1] <= to } }

\* How many events of the dates from..to have the error kind.
OccurrencesOfKind(kind, from, to) ==
    Cardinality({ j \in 1..Len(events) :
          /\ events[j].error_kind = Some(kind)
          /\ from <= events[j].recorded_at[1]
          /\ events[j].recorded_at[1] <= to })

\* The proposals are one for each kind of the current window: some one-to-one
\* assignment of the current kinds to all of the proposals gives every kind a
\* proposal with the kind's occurrences of both windows, and a kind without
\* prior occurrences a proposal that is not persistent and of low confidence.
ProposalsPerKindAsClaimed ==
    LET cur == KindsOfDays(resp.current_window.from, resp.current_window.to)
        ps == resp.proposals
    IN  /\ Len(ps) = Cardinality(cur)
        /\ \E f \in [cur -> 1..Len(ps)] :
              /\ \A k1, k2 \in cur : k1 # k2 => f[k1] # f[k2]
              /\ \A k \in cur :
                    LET e == ps[f[k]].observed_evidence
                        prior_n == OccurrencesOfKind(k, resp.prior_window.from,
                                                     resp.prior_window.to)
                    IN  /\ e.current_occurrences =
                              OccurrencesOfKind(k, resp.current_window.from,
                                                resp.current_window.to)
                        /\ e.prior_occurrences = prior_n
                        /\ prior_n = 0 =>
                              /\ ~ps[f[k]].persistence_two_windows
                              /\ ps[f[k]].confidence = "low"

DistinctActionKeys ==
    \A i, j \in 1..Len(resp.proposals) :
        i # j => resp.proposals[i].action_key # resp.proposals[j].action_key

\* C28: a friction_backlog response has exactly one proposal for each
\* distinct error kind of the current window and none for kinds of the prior
\* window alone; a kind absent from the prior window gets prior_occurrences
\* 0, persistence_two_windows false and confidence low; and the proposals of
\* distinct kinds have distinct action_key values.
C28_OneProposalAndKeyPerKind ==
    FrictionAnswered => ProposalsPerKindAsClaimed /\ DistinctActionKeys

\* C28 without its last clause: the proposals are one for each distinct
\* error kind of the current window, with the evidence of that kind.
C28_OneProposalPerKind == FrictionAnswered => ProposalsPerKindAsClaimed

\* C28, a response without a proposal for a kind of the prior window alone.
C28_GoneKind ==
    /\ FrictionAnswered
    /\ \E k \in KindsOfDays(resp.prior_window.from, resp.prior_window.to) :
          k \notin KindsOfDays(resp.current_window.from, resp.current_window.to)
    /\ resp.proposals # <<>>

\* C28, a response with a proposal for a kind new in the current window.
C28_NewKind ==
    /\ FrictionAnswered
    /\ Len(resp.proposals) = 2
    /\ \E i \in 1..2 : resp.proposals[i].observed_evidence.prior_occurrences = 0

-----------------------------------------------------------------------------
(* Claims about to_day_sample (checked under SpecSample)                    *)

SampleReturned == t_out # NoResult

\* C29: for a daily row with a positive duration the bed, wake and midpoint
\* clock minutes lie in [0, 1440), wake_relative_min equals wake_clock_min,
\* bed_relative_min is bed_clock_min - 1440 exactly when bed_time > wake_time
\* and bed_clock_min otherwise, and bed_relative_min <= wake_relative_min.
C29_DaySampleClocks ==
    SampleReturned /\ t_in.duration_min > 0 =>
        LET sample == t_out.v
        IN  /\ \A f \in {"bed_clock_min", "wake_clock_min", "midpoint_clock_min"} :
                  0 <= sample[f] /\ sample[f] < MinutesPerDay * Centi
            /\ sample.wake_relative_min = sample.wake_clock_min
            /\ sample.bed_relative_min =
                  IF t_in.bed_time > t_in.wake_time
                  THEN sample.bed_clock_min - MinutesPerDay * Centi
                  ELSE sample.bed_clock_min
            /\ sample.bed_relative_min <= sample.wake_relative_min

\* C29 witness: a row whose bed time is later than its wake time within the
\* same clock minute, so that the shifted bed minute is a day before the
\* wake minute, and whose midpoint wrapped round midnight.
C29_Witness ==
    /\ SampleReturned
    /\ t_in.bed_time > t_in.wake_time
    /\ t_out.v.bed_clock_min = t_out.v.wake_clock_min
    /\ t_out.v.bed_relative_min = t_out.v.wake_relative_min - MinutesPerDay * Centi
    /\ t_out.v.midpoint_clock_min > t_out.v.wake_clock_min

\* C29 witness of the other branch: a row that does not cross midnight keeps
\* its bed minute.
C29_SameDayRow ==
    /\ SampleReturned
    /\ t_in.bed_time < t_in.wake_time
    /\ t_out.v.bed_relative_min = t_out.v.bed_clock_min
    /\ t_out.v.bed_relative_min < t_out.v.wake_relative_min

-----------------------------------------------------------------------------
(* Claims about the exercise rows (checked under SpecExercise)              *)

\* The sentinel rows of a date: the rows without start_time and duration_min.
SentinelRows(table, date) ==
    { i \in 1..Len(table) :
        /\ table[i].date = date
        /\ table[i].start_time = None
        /\ table[i].duration_min = None }

OneSentinelPerDate ==
    \A i \in 1..Len(exercise_events) :
        Cardinality(SentinelRows(exercise_events, exercise_events[i].date)) <= 1

\* none < light < hard
IntensityRank(intensity) ==
    CHOOSE r \in 1..3 : <<"none", "light", "hard">>[r] = intensity

\* A listing has one item for each date of the range that has a row, in
\* ascending order of the dates, with the highest intensity of the date's
\* rows.
ListedAsClaimed ==
    out # NoResult /\ out.op = "list_exercise_intensity" =>
        LET items == out.result.items
            of(d) == { i \in 1..Len(exercise_events) : exercise_events[i].date = d }
        IN  /\ \A i, j \in 1..Len(items) : i < j => items[i].date < items[j].date
            /\ { items[i].date : i \in 1..Len(items) } =
                  { exercise_events[i].date : i \in
                      { j \in 1..Len(exercise_events) :
                          /\ out.input.from <= exercise_events[j].date
                          /\ exercise_events[j].date <= out.input.to } }
            /\ \A k \in 1..Len(items) :
                  /\ \E i \in of(items[k].date) :
                        exercise_events[i].intensity = items[k].intensity
                  /\ \A i \in of(items[k].date) :
                        IntensityRank(exercise_events[i].intensity)
                            <= IntensityRank(items[k].intensity)

\* A step of an insert_exercise call that returned.
InsertExerciseStep ==
    /\ calls' = calls + 1
    /\ out'.op = "create_exercise"
    /\ out'.result.kind = "ok"

\* What the claim says of an insert: a sentinel insert for a date that has a
\* sentinel row changes the intensity of that row alone and returns its id;
\* an insert with a start_time or a duration appends a row with a new id.
InsertedAsClaimed ==
    LET input == out'.input
        found == SentinelRows(exercise_events, input.date)
    IN  IF input.start_time = None /\ input.duration_min = None
        THEN found # {} =>
                \E i \in found :
                    /\ exercise_events' =
                          [exercise_events EXCEPT ![i].intensity = input.intensity]
                    /\ out'.result.id = exercise_events[i].id
        ELSE /\ Len(exercise_events') = Len(exercise_events) + 1
             /\ SubSeq(exercise_events', 1, Len(exercise_events)) = exercise_events
             /\ LET added == exercise_events'[Len(exercise_events')]
                IN  /\ added.id = out'.result.id
                    /\ \A i \in 1..Len(exercise_events) : exercise_events[i].id # added.id
                    /\ added.date = input.date
                    /\ added.intensity = input.intensity
                    /\ added.start_time = input.start_time
                    /\ added.duration_min = input.duration_min

\* C30: after any sequence of insert_exercise calls each date has at most
\* one sentinel row; a sentinel insert for a date that has one overwrites
\* that row's intensity and returns its id, an insert with a start_time or a
\* duration adds a new row; and list_exercise_intensity reports per date the
\* highest intensity of the date's rows (none < light < hard), by ascending
\* date.
C30_SentinelUpsertAndListing ==
    /\ [](OneSentinelPerDate /\ ListedAsClaimed)
    /\ [][InsertExerciseStep => InsertedAsClaimed]_vars

\* C30 witness: the third call is a sentinel insert that overwrote the
\* intensity of the first row, with another row of the same date after it,
\* and returned the first row's id.
C30_Witness ==
    /\ calls = 3
    /\ out # NoResult /\ out.op = "create_exercise" /\ out.result.kind = "ok"
    /\ out.input.start_time = None /\ out.input.duration_min = None
    /\ Len(exercise_events) = 2
    /\ out.result.id = exercise_events[1].id
    /\ exercise_events[1].intensity = "none"
    /\ exercise_events[2].date = exercise_events[1].date
    /\ exercise_events[2].intensity = "hard"

\* C30 witness of the listing: two dates listed, the first with a sentinel
\* row and a later row of a lower intensity.
C30_ListedHighest ==
    /\ out # NoResult /\ out.op = "list_exercise_intensity"
    /\ Len(out.result.items) = 2
    /\ Len(exercise_events) = 3
    /\ exercise_events[1].date = exercise_events[2].date
    /\ exercise_events[1].intensity = "hard"
    /\ exercise_events[2].intensity = "light"
    /\ out.result.items[1].intensity = "hard"

=============================================================================
